---- MODULE Spec2Model ----
(***************************************************************************)
(* Model of FilfoxVerifier (services/filfox-verifier.ts): the verify call, *)
(* the remapping table, the import extractor, the import path resolver and  *)
(* the breadth-first closure builder; the constructor and the forge         *)
(* command's check of the chain id and report of the result; two verify     *)
(* calls in flight together.                                                *)
(*                                                                          *)
(* Strings are sequences of one-character strings, so that startsWith,      *)
(* replace, split, trim, basename, dirname and normalize work on            *)
(* characters as the JavaScript does.  A JavaScript object (Record) is a    *)
(* sequence of [path, content] entries with distinct paths, in insertion    *)
(* order.  The text of a source file is a sequence of import statements     *)
(* [form, target]; form i is the statement shape matched by the i-th        *)
(* regular expression of extractImports.                                    *)
(*                                                                          *)
(* The path module is the posix one.  Paths and rules contain no "$" (a     *)
(* replacement pattern of String.prototype.replace) and no key is the name  *)
(* of a property of Object.prototype or an integer index.                   *)
(***************************************************************************)
EXTENDS Integers, Sequences, FiniteSets, TLC

NULL == <<"null">>

\* the absent value of a variable that holds an object
NONE == [none |-> TRUE]

(***************************************************************************)
(* Bounds of the model                                                      *)
(***************************************************************************)
MaxFiles == 4
MaxImports == 2
MaxRules == 2

(***************************************************************************)
(* JavaScript string primitives                                             *)
(***************************************************************************)
Min(a, b) == IF a <= b THEN a ELSE b
Max(a, b) == IF a >= b THEN a ELSE b

startsWith(s, p) == Len(p) <= Len(s) /\ SubSeq(s, 1, Len(p)) = p

\* 0-based index of the first occurrence of pat in s, -1 when there is none
indexOf(s, pat) ==
  LET hits == {i \in 0..(Len(s) - Len(pat)) : SubSeq(s, i + 1, i + Len(pat)) = pat}
  IN  IF hits = {} THEN -1 ELSE CHOOSE i \in hits : \A j \in hits : i <= j

\* String.prototype.replace with a string pattern: the first occurrence only
replace(s, pat, rep) ==
  LET i == indexOf(s, pat)
  IN  IF i = -1 THEN s
      ELSE SubSeq(s, 1, i) \o rep \o SubSeq(s, i + Len(pat) + 1, Len(s))

RECURSIVE splitFrom(_, _, _, _)
splitFrom(s, sep, i, cur) ==
  IF i > Len(s) THEN <<cur>>
  ELSE IF s[i] = sep THEN <<cur>> \o splitFrom(s, sep, i + 1, <<>>)
       ELSE splitFrom(s, sep, i + 1, Append(cur, s[i]))

\* String.prototype.split on a one-character separator: every occurrence splits
split(s, sep) == splitFrom(s, sep, 1, <<>>)

RECURSIVE trimStart(_)
trimStart(s) == IF s # <<>> /\ Head(s) = " " THEN trimStart(Tail(s)) ELSE s

RECURSIVE trimEnd(_)
trimEnd(s) ==
  IF s # <<>> /\ s[Len(s)] = " " THEN trimEnd(SubSeq(s, 1, Len(s) - 1)) ELSE s

trim(s) == trimEnd(trimStart(s))

RECURSIVE joinSegs(_)
joinSegs(segs) ==
  IF segs = <<>> THEN <<>>
  ELSE IF Len(segs) = 1 THEN segs[1]
       ELSE segs[1] \o <<"/">> \o joinSegs(Tail(segs))

SelectSeqNonEmpty(segs) == SelectSeq(segs, LAMBDA x : x # <<>>)

(***************************************************************************)
(* Node's posix path module                                                 *)
(***************************************************************************)
RECURSIVE stripTrailingSlashes(_)
stripTrailingSlashes(p) ==
  IF Len(p) > 1 /\ p[Len(p)] = "/" THEN stripTrailingSlashes(SubSeq(p, 1, Len(p) - 1))
  ELSE p

basename(p) ==
  LET q == stripTrailingSlashes(p)
      parts == split(q, "/")
  IN  IF q = <<"/">> THEN <<>> ELSE parts[Len(parts)]

dirname(p) ==
  LET q == stripTrailingSlashes(p)
      parts == split(q, "/")
      head == SubSeq(parts, 1, Len(parts) - 1)
  IN  IF p = <<>> THEN <<".">>
      ELSE IF Len(parts) = 1 THEN <<".">>
      ELSE IF SelectSeqNonEmpty(head) = <<>> THEN <<"/">>
      ELSE stripTrailingSlashes(joinSegs(head))

\* the segments of a path with "." and ".." resolved (normalizeString)
RECURSIVE normalizeSegs(_, _, _)
normalizeSegs(segs, acc, isAbs) ==
  IF segs = <<>> THEN acc
  ELSE LET x == Head(segs) IN
       IF x = <<>> \/ x = <<".">> THEN normalizeSegs(Tail(segs), acc, isAbs)
       ELSE IF x = <<".", ".">>
            THEN IF acc # <<>> /\ acc[Len(acc)] # <<".", ".">>
                 THEN normalizeSegs(Tail(segs), SubSeq(acc, 1, Len(acc) - 1), isAbs)
                 ELSE IF isAbs THEN normalizeSegs(Tail(segs), acc, isAbs)
                      ELSE normalizeSegs(Tail(segs), Append(acc, x), isAbs)
            ELSE normalizeSegs(Tail(segs), Append(acc, x), isAbs)

normalize(p) ==
  IF p = <<>> THEN <<".">>
  ELSE LET isAbs == p[1] = "/"
           trailing == p[Len(p)] = "/"
           body == joinSegs(normalizeSegs(split(p, "/"), <<>>, isAbs))
           withDot == IF body = <<>> /\ ~isAbs THEN <<".">> ELSE body
           withSep == IF body # <<>> /\ trailing THEN withDot \o <<"/">>
                      ELSE IF body = <<>> /\ ~isAbs /\ trailing THEN <<".", "/">>
                      ELSE withDot
       IN  IF isAbs THEN <<"/">> \o withSep ELSE withSep

\* path.join of two arguments
join(a, b) ==
  IF a = <<>> /\ b = <<>> THEN <<".">>
  ELSE IF a = <<>> THEN normalize(b)
  ELSE IF b = <<>> THEN normalize(a)
  ELSE normalize(a \o <<"/">> \o b)

(***************************************************************************)
(* JavaScript objects used as maps: entries in insertion order              *)
(***************************************************************************)
Range(f) == {f[i] : i \in DOMAIN f}

keys(obj) == [i \in 1..Len(obj) |-> obj[i].path]

has(obj, k) == \E i \in 1..Len(obj) : obj[i].path = k

get(obj, k) == obj[CHOOSE i \in 1..Len(obj) : obj[i].path = k].content

\* obj[k] = v: an existing key keeps its position, a new key is appended
put(obj, k, v) ==
  IF has(obj, k)
  THEN [i \in 1..Len(obj) |-> IF obj[i].path = k THEN [path |-> k, content |-> v] ELSE obj[i]]
  ELSE Append(obj, [path |-> k, content |-> v])

RECURSIVE spread(_, _)
\* {...a, ...b}
spread(a, b) ==
  IF b = <<>> THEN a ELSE spread(put(a, Head(b).path, Head(b).content), Tail(b))

includes(seq, x) == \E i \in 1..Len(seq) : seq[i] = x

(***************************************************************************)
(* Remapping table                                                          *)
(***************************************************************************)
\* mapping.split("=") has no second element: resolved is undefined and
\* resolved.trim() throws a TypeError
parseThrows(remappingsArray) ==
  \E i \in 1..Len(remappingsArray) : Len(split(remappingsArray[i], "=")) < 2

parseRemappings(remappingsArray) ==
  [i \in 1..Len(remappingsArray) |->
     LET parts == split(remappingsArray[i], "=")
     IN  [original |-> trim(parts[1]), resolved |-> trim(parts[2])]]

\* Array.prototype.find: the index of the first rule whose resolved side
\* prefixes the path, 0 for undefined
findRemapping(filePath, remappings) ==
  LET hits == {i \in 1..Len(remappings) : startsWith(filePath, remappings[i].resolved)}
  IN  IF hits = {} THEN 0 ELSE CHOOSE i \in hits : \A j \in hits : i <= j

RECURSIVE createRemappedFrom(_, _, _)
createRemappedFrom(entries, remappings, remappedFiles) ==
  IF entries = <<>> THEN remappedFiles
  ELSE LET e == Head(entries)
           m == findRemapping(e.path, remappings)
       IN  IF m # 0
           THEN createRemappedFrom(Tail(entries), remappings,
                  put(remappedFiles,
                      replace(e.path, remappings[m].resolved, remappings[m].original),
                      e.content))
           ELSE createRemappedFrom(Tail(entries), remappings, remappedFiles)

createRemappedSourceFiles(sourceFiles, remappings) ==
  createRemappedFrom(sourceFiles, remappings, <<>>)

(***************************************************************************)
(* Import extractor                                                         *)
(***************************************************************************)
ImportForms == 1..4

RECURSIVE scanFrom(_, _, _, _)
\* one regular expression's exec loop over the text
scanFrom(content, form, i, imports) ==
  IF i > Len(content) THEN imports
  ELSE IF content[i].form = form /\ ~includes(imports, content[i].target)
       THEN scanFrom(content, form, i + 1, Append(imports, content[i].target))
       ELSE scanFrom(content, form, i + 1, imports)

RECURSIVE scanForms(_, _, _)
scanForms(content, form, imports) ==
  IF form > 4 THEN imports
  ELSE scanForms(content, form + 1, scanFrom(content, form, 1, imports))

RECURSIVE scanText(_, _, _)
\* mutant: one pass over the text, whatever the form of the statement
scanText(content, i, imports) ==
  IF i > Len(content) THEN imports
  ELSE IF content[i].form \in ImportForms /\ ~includes(imports, content[i].target)
       THEN scanText(content, i + 1, Append(imports, content[i].target))
       ELSE scanText(content, i + 1, imports)

extractImportsInTextOrder(content) == scanText(content, 1, <<>>)

extractImports(content) == scanForms(content, 1, <<>>)

(***************************************************************************)
(* Import path resolver                                                     *)
(***************************************************************************)
\* mutant: the directory and the import are joined as they are
resolveRelativeImportAsWritten(importPath, currentFile) ==
  dirname(currentFile) \o <<"/">> \o importPath

resolveRelativeImport(importPath, currentFile) ==
  normalize(join(dirname(currentFile), importPath))

RECURSIVE insertByLength(_, _)
\* stable insertion: x goes after every element at least as long as it
insertByLength(sorted, x) ==
  IF sorted = <<>> THEN <<x>>
  ELSE IF Len(Head(sorted).original) >= Len(x.original)
       THEN <<Head(sorted)>> \o insertByLength(Tail(sorted), x)
       ELSE <<x>> \o sorted

RECURSIVE sortByLengthFrom(_, _)
sortByLengthFrom(seq, sorted) ==
  IF seq = <<>> THEN sorted
  ELSE sortByLengthFrom(Tail(seq), insertByLength(sorted, Head(seq)))

\* mutant: the matching rules are left in declaration order
sortByOriginalLengthUnsorted(seq) == seq

\* .sort((a, b) => b.original.length - a.original.length), a stable sort
sortByOriginalLength(seq) == sortByLengthFrom(seq, <<>>)

resolveRemappedImport(importPath, remappings) ==
  LET sortedRemappings ==
        sortByOriginalLength(
          SelectSeq(remappings, LAMBDA m : startsWith(importPath, m.original)))
  IN  IF Len(sortedRemappings) > 0
      THEN replace(importPath, sortedRemappings[1].original, sortedRemappings[1].resolved)
      ELSE NULL

pathSegments(p) ==
  SelectSeq(split(p, "/"), LAMBDA x : x # <<>> /\ x # <<".">> /\ x # <<".", ".">>)

\* mutant: one common segment is enough
pathContextMatchesAnySegment(importPath, availablePath) ==
  LET importSegments == pathSegments(importPath)
      availableSegments == pathSegments(availablePath)
      matches == Cardinality({i \in 1..Len(importSegments) :
                                includes(availableSegments, importSegments[i])})
  IN  matches >= 1

pathContextMatches(importPath, availablePath) ==
  LET importSegments == pathSegments(importPath)
      availableSegments == pathSegments(availablePath)
      matches == Cardinality({i \in 1..Len(importSegments) :
                                includes(availableSegments, importSegments[i])})
  IN  matches >= Max(1, Len(importSegments) - 1)

\* Strategy 1
directHit(importPath, availableFiles) ==
  IF has(availableFiles, importPath) THEN importPath ELSE NULL

\* Strategy 2
relativeHit(importPath, currentFile, availableFiles) ==
  IF startsWith(importPath, <<".", "/">>) \/ startsWith(importPath, <<".", ".", "/">>)
  THEN LET resolvedPath == resolveRelativeImport(importPath, currentFile)
       IN  IF has(availableFiles, resolvedPath) THEN resolvedPath ELSE NULL
  ELSE NULL

\* Strategy 3
remappedHit(importPath, remappings, availableFiles) ==
  LET remappedPath == resolveRemappedImport(importPath, remappings)
  IN  IF remappedPath # NULL /\ remappedPath # <<>> /\ has(availableFiles, remappedPath)
      THEN remappedPath ELSE NULL

\* Strategy 4
fallbackHit(importPath, availableFiles) ==
  LET fileName == basename(importPath)
      hits == {i \in 1..Len(availableFiles) :
                 /\ basename(availableFiles[i].path) = fileName
                 /\ pathContextMatches(importPath, availableFiles[i].path)}
  IN  IF hits = {} THEN NULL
      ELSE availableFiles[CHOOSE i \in hits : \A j \in hits : i <= j].path

\* mutant: the remapping rules are consulted before the relative path
resolveImportPathRemappedFirst(importPath, currentFile, remappings, availableFiles) ==
  IF directHit(importPath, availableFiles) # NULL
  THEN directHit(importPath, availableFiles)
  ELSE IF remappedHit(importPath, remappings, availableFiles) # NULL
  THEN remappedHit(importPath, remappings, availableFiles)
  ELSE IF relativeHit(importPath, currentFile, availableFiles) # NULL
  THEN relativeHit(importPath, currentFile, availableFiles)
  ELSE fallbackHit(importPath, availableFiles)

\* mutant: the filename fallback is never tried
resolveImportPathNoFallback(importPath, currentFile, remappings, availableFiles) ==
  IF directHit(importPath, availableFiles) # NULL
  THEN directHit(importPath, availableFiles)
  ELSE IF relativeHit(importPath, currentFile, availableFiles) # NULL
  THEN relativeHit(importPath, currentFile, availableFiles)
  ELSE remappedHit(importPath, remappings, availableFiles)

\* the path of the result, or NULL (with a console.warn by the caller's account)
resolveImportPath(importPath, currentFile, remappings, availableFiles) ==
  IF directHit(importPath, availableFiles) # NULL
  THEN directHit(importPath, availableFiles)
  ELSE IF relativeHit(importPath, currentFile, availableFiles) # NULL
  THEN relativeHit(importPath, currentFile, availableFiles)
  ELSE IF remappedHit(importPath, remappings, availableFiles) # NULL
  THEN remappedHit(importPath, remappings, availableFiles)
  ELSE fallbackHit(importPath, availableFiles)

(***************************************************************************)
(* The closure builder: one iteration of the while loop                     *)
(***************************************************************************)
RECURSIVE enqueueImportsStopAtUnresolved(_, _, _, _, _, _)
\* mutant: the first unresolved import ends the for loop
enqueueImportsStopAtUnresolved(imports, currentFile, rules, availableFiles, done, q) ==
  IF imports = <<>> THEN q
  ELSE LET resolvedImport == resolveImportPath(Head(imports), currentFile, rules, availableFiles)
       IN  IF resolvedImport = NULL THEN q
           ELSE enqueueImportsStopAtUnresolved(Tail(imports), currentFile, rules,
                  availableFiles, done,
                  IF resolvedImport \notin done THEN Append(q, resolvedImport) ELSE q)

RECURSIVE enqueueImports(_, _, _, _, _, _)
\* for (const importPath of imports) ... queue.push(resolvedImport.path)
enqueueImports(imports, currentFile, rules, availableFiles, done, q) ==
  IF imports = <<>> THEN q
  ELSE LET resolvedImport == resolveImportPath(Head(imports), currentFile, rules, availableFiles)
       IN  enqueueImports(Tail(imports), currentFile, rules, availableFiles, done,
             IF resolvedImport # NULL /\ resolvedImport \notin done
             THEN Append(q, resolvedImport) ELSE q)

\* the console.warn lines of resolveImportPath for one file, in order
unresolvedImports(imports, currentFile, rules, availableFiles) ==
  LET missed == SelectSeq(imports, LAMBDA i :
                  resolveImportPath(i, currentFile, rules, availableFiles) = NULL)
  IN  [k \in 1..Len(missed) |-> [importPath |-> missed[k], from |-> currentFile]]

\* mutant: only the remapped paths are seeds
seedQueueAliasesOnly(sourceFiles, remappedFiles, rules) == keys(remappedFiles)

\* mutant: every original path is a seed, with or without a remapped version
seedQueueAllOriginals(sourceFiles, remappedFiles, rules) ==
  keys(remappedFiles) \o keys(sourceFiles)

\* the initial queue: remapped paths, then originals without a remapped version
seedQueue(sourceFiles, remappedFiles, rules) ==
  LET hasRemappedVersion(originalPath) ==
        \E k \in 1..Len(remappedFiles) : \E m \in 1..Len(rules) :
          /\ startsWith(originalPath, rules[m].resolved)
          /\ remappedFiles[k].path = replace(originalPath, rules[m].resolved, rules[m].original)
  IN  keys(remappedFiles)
        \o SelectSeq(keys(sourceFiles), LAMBDA originalPath : ~hasRemappedVersion(originalPath))

\* mutant: the originals are spread last and shadow the aliases
mergeAvailableOriginalsLast(sourceFiles, remappedFiles) == spread(remappedFiles, sourceFiles)

\* const allAvailableFiles = {...sourceFiles, ...remappedSourceFiles}
mergeAvailable(sourceFiles, remappedFiles) == spread(sourceFiles, remappedFiles)

\* mutant: the check `if (processed.has(currentFile)) continue` is missing
loopBodyNoSkip(st, rules, availableFiles) ==
  LET currentFile == Head(st.queue)
      rest == Tail(st.queue)
      done == st.processed \cup {currentFile}
  IN  IF has(availableFiles, currentFile)
      THEN LET imports == extractImports(get(availableFiles, currentFile)) IN
             [queue |-> enqueueImports(imports, currentFile, rules, availableFiles,
                                       done, rest),
              processed |-> done,
              necessaryFiles |-> put(st.necessaryFiles, currentFile,
                                     get(availableFiles, currentFile)),
              warnings |-> st.warnings \o
                           unresolvedImports(imports, currentFile, rules, availableFiles)]
      ELSE [st EXCEPT !.queue = rest, !.processed = done]

\* mutant: a path is marked processed when it is enqueued
loopBodyMarksOnEnqueue(st, rules, availableFiles) ==
  LET currentFile == Head(st.queue)
      rest == Tail(st.queue)
  IN  IF currentFile \in st.processed
      THEN [st EXCEPT !.queue = rest]
      ELSE LET done == st.processed \cup {currentFile} IN
           IF has(availableFiles, currentFile)
           THEN LET imports == extractImports(get(availableFiles, currentFile))
                    q == enqueueImports(imports, currentFile, rules, availableFiles, done, rest)
                IN  [queue |-> q,
                     processed |-> done \cup Range(q),
                     necessaryFiles |-> put(st.necessaryFiles, currentFile,
                                            get(availableFiles, currentFile)),
                     warnings |-> st.warnings \o
                                  unresolvedImports(imports, currentFile, rules, availableFiles)]
           ELSE [st EXCEPT !.queue = rest, !.processed = done]

\* mutant: processed.add(currentFile) is missing
loopBodyNeverMarks(st, rules, availableFiles) ==
  LET currentFile == Head(st.queue)
      rest == Tail(st.queue)
  IN  IF currentFile \in st.processed
      THEN [st EXCEPT !.queue = rest]
      ELSE IF has(availableFiles, currentFile)
           THEN LET imports == extractImports(get(availableFiles, currentFile)) IN
                  [queue |-> enqueueImports(imports, currentFile, rules, availableFiles,
                                            st.processed, rest),
                   processed |-> st.processed,
                   necessaryFiles |-> put(st.necessaryFiles, currentFile,
                                          get(availableFiles, currentFile)),
                   warnings |-> st.warnings \o
                                unresolvedImports(imports, currentFile, rules, availableFiles)]
           ELSE [st EXCEPT !.queue = rest]

\* The body of the while loop on the traversal state
\* st = [queue, processed, necessaryFiles, warnings]
loopBody(st, rules, availableFiles) ==
  LET currentFile == Head(st.queue)
      rest == Tail(st.queue)
  IN  IF currentFile \in st.processed
      THEN [st EXCEPT !.queue = rest]
      ELSE LET done == st.processed \cup {currentFile} IN
           IF has(availableFiles, currentFile)
           THEN LET imports == extractImports(get(availableFiles, currentFile)) IN
                  [queue |-> enqueueImports(imports, currentFile, rules, availableFiles,
                                            done, rest),
                   processed |-> done,
                   necessaryFiles |-> put(st.necessaryFiles, currentFile,
                                          get(availableFiles, currentFile)),
                   warnings |-> st.warnings \o
                                unresolvedImports(imports, currentFile, rules, availableFiles)]
           ELSE [st EXCEPT !.queue = rest, !.processed = done]

RECURSIVE runLoop(_, _, _)
\* while (queue.length > 0) { ... }
runLoop(st, rules, availableFiles) ==
  IF st.queue = <<>> THEN st
  ELSE runLoop(loopBody(st, rules, availableFiles), rules, availableFiles)

\* resolveNecessaryImports as a function of its argument
resolveNecessaryImports(sourceFiles, remappedFiles, rules) ==
  runLoop([queue |-> seedQueue(sourceFiles, remappedFiles, rules),
           processed |-> {},
           necessaryFiles |-> <<>>,
           warnings |-> <<>>],
          rules, mergeAvailable(sourceFiles, remappedFiles)).necessaryFiles

\* compiler.includes("v") ? compiler : `v${compiler}`
normalizeCompilerVersion(compiler) ==
  IF includes(compiler, "v") THEN compiler ELSE <<"v">> \o compiler

(***************************************************************************)
(* Inputs: paths, import targets and remapping rule strings                 *)
(***************************************************************************)
p_A == <<"A", ".", "s", "o", "l">>
p_B == <<"B", ".", "s", "o", "l">>
p_C == <<"C", ".", "s", "o", "l">>
p_D == <<"D", ".", "s", "o", "l">>
p_LibToken == <<"l", "i", "b", "/", "t", "o", "k", "e", "n", "/", "T", "o", "k", "e", "n", ".", "s", "o", "l">>
p_AtLibToken == <<"@", "l", "i", "b", "/", "T", "o", "k", "e", "n", ".", "s", "o", "l">>
i_A == <<".", "/", "A", ".", "s", "o", "l">>
i_B == <<".", "/", "B", ".", "s", "o", "l">>
i_C == <<".", "/", "C", ".", "s", "o", "l">>
i_Token == <<".", "/", "T", "o", "k", "e", "n", ".", "s", "o", "l">>
i_Thing == <<"n", "o", "n", "e", "x", "i", "s", "t", "e", "n", "t", "/", "T", "h", "i", "n", "g", ".", "s", "o", "l">>
i_VendorToken == <<"v", "e", "n", "d", "o", "r", "/", "T", "o", "k", "e", "n", ".", "s", "o", "l">>
r_Lib == <<"@", "l", "i", "b", "/", "=", "l", "i", "b", "/", "t", "o", "k", "e", "n", "/">>
r_NoEquals == <<"@", "l", "i", "b", "/", "l", "i", "b", "/", "t", "o", "k", "e", "n", "/">>
r_EmptySide == <<"@", "a", "l", "l", "/", "=">>

Imp(f, t) == [form |-> f, target |-> t]

\* text that is no import statement
Text(t) == [form |-> 0, target |-> t]

PathUniverse == <<p_A, p_B, p_C, p_D, p_LibToken, p_AtLibToken>>

ContentOptions(p) ==
  CASE p = p_A -> { <<>>,
                    <<Imp(1, i_B)>>,
                    <<Imp(2, p_AtLibToken)>>,
                    <<Imp(3, i_VendorToken)>>,
                    <<Imp(1, i_Thing), Imp(1, p_LibToken)>>,
                    <<Imp(2, i_B), Imp(1, i_Thing)>> }
    [] p = p_B -> { <<>>, <<Imp(1, i_C)>>, <<Imp(4, i_A)>> }
    [] p = p_C -> { <<>>, <<Imp(1, i_C)>> }
    [] p = p_D -> { <<>> }
    [] p = p_LibToken -> { <<Text(<<"T">>)>>, <<Text(<<"T">>), Imp(1, i_Token)>> }
    [] p = p_AtLibToken -> { <<>> }

RuleUniverse == {r_Lib, r_NoEquals, r_EmptySide}

RECURSIVE SeqsUpTo(_, _)
SeqsUpTo(S, n) ==
  IF n = 0 THEN {<<>>}
  ELSE LET shorter == SeqsUpTo(S, n - 1)
       IN  shorter \cup {Append(q, x) : q \in shorter, x \in S}

importCount(content) == Len(SelectSeq(content, LAMBDA st : st.form \in ImportForms))

\* the source-file maps: a selection of the universe, in its order
SourceFileMaps ==
  LET picks == {S \in SUBSET (1..Len(PathUniverse)) :
                  Cardinality(S) >= 1 /\ Cardinality(S) <= MaxFiles}
      choices(S) == {f \in [S -> UNION {ContentOptions(PathUniverse[i]) : i \in S}] :
                       \A i \in S : /\ f[i] \in ContentOptions(PathUniverse[i])
                                    /\ importCount(f[i]) <= MaxImports}
      RECURSIVE build(_, _, _)
      build(S, f, i) ==
        IF i > Len(PathUniverse) THEN <<>>
        ELSE IF i \in S
             THEN <<[path |-> PathUniverse[i], content |-> f[i]]>> \o build(S, f, i + 1)
             ELSE build(S, f, i + 1)
  IN  UNION {{build(S, f, 1) : f \in choices(S)} : S \in picks}

\* request.metadata.settings.remappings is kept as request.remappings
Requests ==
  {[address |-> <<"0", "x", "A">>, language |-> <<"S">>, compiler |-> <<"0", ".", "8">>,
    optimize |-> TRUE, optimizeRuns |-> 200, sourceFiles |-> sf, license |-> <<>>,
    evmVersion |-> <<"p">>, viaIR |-> FALSE, libraries |-> <<>>,
    remappings |-> rm, optimizerDetails |-> <<"{", "}">>] :
     sf \in SourceFileMaps, rm \in SeqsUpTo(RuleUniverse, MaxRules)}

\* what the server may answer: a JSON result with an error code, or a body
\* that is no JSON
ServerCodes == {0, 1, 2, 3, 4, 5, 6, 7, 9}
NotJson == [json |-> FALSE]
ResponseBodies == {[json |-> TRUE, errorCode |-> c] : c \in ServerCodes} \cup {NotJson}

(***************************************************************************)
(* The instance: endpoint table and constructor                             *)
(***************************************************************************)
UNDEFINED == "undefined"

\* private static readonly FILFOX_NETWORKS, read with a key that is no own
\* property: undefined
FILFOX_NETWORKS(id) ==
  CASE id = 314 -> "https://filfox.info/api/v1/tools/verifyContract"
    [] id = 314159 -> "https://calibration.filfox.info/api/v1/tools/verifyContract"
    [] OTHER -> UNDEFINED

\* !this.baseUrl
falsy(v) == v = UNDEFINED \/ v = ""

\* mutant: the constructor has no check of the base URL
constructorNoCheck(id) ==
  [baseUrl |-> FILFOX_NETWORKS(id), chainId |-> id, threw |-> FALSE]

\* new FilfoxVerifier(id): the fields assigned, and whether it threw
constructor(id) ==
  [baseUrl |-> FILFOX_NETWORKS(id), chainId |-> id, threw |-> falsy(FILFOX_NETWORKS(id))]

\* const validChainIds = ["314", "314159"]
validChainIds == {314, 314159}

\* the chain ids a caller may pass
ChainIds == {0, 1, 314, 315, 314159}

c_Short == <<"0", ".", "8">>
c_Long == <<"v", "0", ".", "8">>
c_Dev == <<"0", ".", "8", "-", "d", "e", "v">>
c_Empty == <<>>

CompilerVersions == {c_Short, c_Long, c_Dev, c_Empty}

\* the source-file maps of the requests sent through the whole submitter
SubmitSourceFiles ==
  { <<[path |-> p_A, content |-> <<>>]>>,
    <<[path |-> p_A, content |-> <<Imp(1, i_B)>>],
      [path |-> p_B, content |-> <<>>],
      [path |-> p_C, content |-> <<>>]>>,
    <<[path |-> p_A, content |-> <<Imp(2, p_AtLibToken)>>],
      [path |-> p_LibToken, content |-> <<Text(<<"T">>)>>]>> }

SubmitRequests ==
  {[address |-> a, language |-> <<"S">>, compiler |-> c,
    optimize |-> o, optimizeRuns |-> 200, sourceFiles |-> sf, license |-> <<"M">>,
    evmVersion |-> <<"p">>, viaIR |-> v, libraries |-> <<"L">>,
    remappings |-> rm, optimizerDetails |-> <<"{", "}">>] :
     a \in {<<"0", "x", "A">>, <<"0", "x", "B">>}, c \in CompilerVersions,
     o \in BOOLEAN, v \in BOOLEAN, sf \in SubmitSourceFiles,
     rm \in {<<>>, <<r_Lib>>, <<r_NoEquals>>}}

(***************************************************************************)
(* State of one verify call                                                 *)
(***************************************************************************)
VARIABLES
  request,              \* the caller's VerificationRequest
  pc,                   \* position of the call
  remappings,           \* parsed rules
  remappedSourceFiles,
  allAvailableFiles,
  queue,
  processed,
  necessaryFiles,
  warnings,             \* console.warn lines of resolveImportPath
  requestBody,          \* body of the POST, NONE before it is built
  posts,                \* number of fetch calls made
  response,             \* the server's response, NONE before it arrives
  error,                \* the exception caught at line 113, NULL if none
  result,               \* the value verify resolves with, NONE before it returns
  unit,                 \* a direct call of one helper: [fn, args, out, done]
  chainId,              \* this.chainId
  baseUrl,              \* this.baseUrl
  fetchUrl,             \* the URL handed to fetch, UNDEFINED before the call
  calls,                \* the verify calls in flight together, by call number
  running               \* the call that holds the JavaScript thread, 0 for none

vars == <<request, pc, remappings, remappedSourceFiles, allAvailableFiles, queue,
          processed, necessaryFiles, warnings, requestBody, posts, response,
          error, result, unit, chainId, baseUrl, fetchUrl, calls, running>>

\* the instance and the calls made beside this one
ctx == <<chainId, baseUrl, calls, running>>

closureVars == <<remappings, remappedSourceFiles, allAvailableFiles, queue,
                 processed, necessaryFiles, warnings>>

Init ==
  /\ request \in Requests
  /\ pc = "parseRemappings"
  /\ remappings = <<>>
  /\ remappedSourceFiles = <<>>
  /\ allAvailableFiles = <<>>
  /\ queue = <<>>
  /\ processed = {}
  /\ necessaryFiles = <<>>
  /\ warnings = <<>>
  /\ requestBody = NONE
  /\ posts = 0
  /\ response = NONE
  /\ error = NULL
  /\ result = NONE
  /\ unit = NONE
  /\ chainId = 314
  /\ baseUrl = FILFOX_NETWORKS(314)
  /\ fetchUrl = UNDEFINED
  /\ calls = <<>>
  /\ running = 0

\* mutant: the supplied source files and the metadata are sent as they came
requestBodyAsSupplied(req, necessary) ==
  [address |-> req.address,
   language |-> req.language,
   compiler |-> normalizeCompilerVersion(req.compiler),
   optimize |-> req.optimize,
   optimizeRuns |-> req.optimizeRuns,
   sourceFiles |-> req.sourceFiles,
   license |-> req.license,
   evmVersion |-> req.evmVersion,
   viaIR |-> req.viaIR,
   libraries |-> req.libraries,
   metadata |-> req.remappings,
   optimizerDetails |-> req.optimizerDetails]

\* const requestBody = { ... }
requestBodyOf(req, necessary) ==
  [address |-> req.address,
   language |-> req.language,
   compiler |-> normalizeCompilerVersion(req.compiler),
   optimize |-> req.optimize,
   optimizeRuns |-> req.optimizeRuns,
   sourceFiles |-> necessary,
   license |-> req.license,
   evmVersion |-> req.evmVersion,
   viaIR |-> req.viaIR,
   libraries |-> req.libraries,
   metadata |-> <<>>,
   optimizerDetails |-> req.optimizerDetails]

\* mutant: the catch block logs the error and throws it again
CatchRethrows(e) ==
  /\ error' = e
  /\ result' = result
  /\ pc' = "rejected"

\* catch (error) { console.error(...); return { errorCode: 8 } }
Catch(e) ==
  /\ error' = e
  /\ result' = [errorCode |-> 8]
  /\ pc' = "returned"

ParseRemappings ==
  /\ pc = "parseRemappings"
  /\ IF parseThrows(request.remappings)
     THEN /\ Catch(<<"TypeError">>)
          /\ UNCHANGED remappings
     ELSE /\ remappings' = parseRemappings(request.remappings)
          /\ pc' = "createRemapped"
          /\ UNCHANGED <<error, result>>
  /\ UNCHANGED <<ctx, fetchUrl, unit, request, remappedSourceFiles, allAvailableFiles, queue, processed,
                 necessaryFiles, warnings, requestBody, posts, response>>

\* mutant: the aliases are written into the caller's own source-file map
CreateRemappedInPlace ==
  /\ pc = "createRemapped"
  /\ remappedSourceFiles' = createRemappedSourceFiles(request.sourceFiles, remappings)
  /\ request' = [request EXCEPT !.sourceFiles =
                   spread(request.sourceFiles,
                          createRemappedSourceFiles(request.sourceFiles, remappings))]
  /\ pc' = "seed"
  /\ UNCHANGED <<ctx, fetchUrl, unit, remappings, allAvailableFiles, queue, processed,
                 necessaryFiles, warnings, requestBody, posts, response, error, result>>

CreateRemapped ==
  /\ pc = "createRemapped"
  /\ remappedSourceFiles' = createRemappedSourceFiles(request.sourceFiles, remappings)
  /\ pc' = "seed"
  /\ UNCHANGED <<ctx, fetchUrl, unit, request, remappings, allAvailableFiles, queue, processed,
                 necessaryFiles, warnings, requestBody, posts, response, error, result>>

\* resolveNecessaryImports up to the while loop
Seed ==
  /\ pc = "seed"
  /\ allAvailableFiles' = mergeAvailable(request.sourceFiles, remappedSourceFiles)
  /\ queue' = seedQueue(request.sourceFiles, remappedSourceFiles, remappings)
  /\ processed' = {}
  /\ necessaryFiles' = <<>>
  /\ pc' = "loop"
  /\ UNCHANGED <<ctx, fetchUrl, unit, request, remappings, remappedSourceFiles, warnings, requestBody,
                 posts, response, error, result>>

\* one iteration of the while loop
LoopStep ==
  /\ pc = "loop"
  /\ queue # <<>>
  /\ LET st == loopBody([queue |-> queue, processed |-> processed,
                         necessaryFiles |-> necessaryFiles, warnings |-> warnings],
                        remappings, allAvailableFiles)
     IN  /\ queue' = st.queue
         /\ processed' = st.processed
         /\ necessaryFiles' = st.necessaryFiles
         /\ warnings' = st.warnings
  /\ UNCHANGED <<ctx, fetchUrl, unit, request, pc, remappings, remappedSourceFiles, allAvailableFiles,
                 requestBody, posts, response, error, result>>

\* the queue is empty: the closure is returned, the body is built and posted
Post ==
  /\ pc = "loop"
  /\ queue = <<>>
  /\ requestBody' = requestBodyOf(request, necessaryFiles)
  /\ fetchUrl' = baseUrl
  /\ posts' = posts + 1
  /\ pc' = "awaitFetch"
  /\ UNCHANGED <<ctx, unit, request, closureVars, response, error, result>>

\* mutant: a failed request is sent once more
FetchRejectsRetries ==
  /\ pc = "awaitFetch"
  /\ IF posts < 2
     THEN /\ pc' = "loop"
          /\ UNCHANGED <<error, result>>
     ELSE Catch(<<"FetchError">>)
  /\ UNCHANGED <<ctx, fetchUrl, unit, request, closureVars, requestBody, posts, response>>

\* the transport fails: fetch rejects
FetchRejects ==
  /\ pc = "awaitFetch"
  /\ Catch(<<"FetchError">>)
  /\ UNCHANGED <<ctx, fetchUrl, unit, request, closureVars, requestBody, posts, response>>

\* a response arrives
FetchResolves ==
  /\ pc = "awaitFetch"
  /\ \E body \in ResponseBodies : response' = body
  /\ pc' = "awaitJson"
  /\ UNCHANGED <<ctx, fetchUrl, unit, request, closureVars, requestBody, posts, error, result>>

\* response.json() on a body that is JSON
JsonResolves ==
  /\ pc = "awaitJson"
  /\ response.json
  /\ result' = [errorCode |-> response.errorCode]
  /\ pc' = "returned"
  /\ UNCHANGED <<ctx, fetchUrl, unit, request, closureVars, requestBody, posts, response, error>>

\* response.json() on a body that is no JSON
JsonRejects ==
  /\ pc = "awaitJson"
  /\ ~response.json
  /\ Catch(<<"SyntaxError">>)
  /\ UNCHANGED <<ctx, fetchUrl, unit, request, closureVars, requestBody, posts, response>>

Next ==
  \/ ParseRemappings
  \/ CreateRemapped
  \/ Seed
  \/ LoopStep
  \/ Post
  \/ FetchRejects
  \/ FetchResolves
  \/ JsonResolves
  \/ JsonRejects

Spec == Init /\ [][Next]_vars

(***************************************************************************)
(* The forge command's report of a result: the calls made on the spinner    *)
(***************************************************************************)
explorerUrls(id) ==
  CASE id = 314159 -> "https://calibration.filfox.info/en/address/"
    [] id = 314 -> "https://filfox.info/en/address/"
    [] OTHER -> UNDEFINED

succeed(text) == [kind |-> "succeed", text |-> text]

fail(text) == [kind |-> "fail", text |-> text]

\* mutant: "already verified" is reported as a failure
handleVerificationResultFailsOnSix(res, id, address) ==
  LET explorerUrl == explorerUrls(id) IN
  CASE res.errorCode = 0 ->
         <<succeed(<<"Contract", res.contractName, "verified successfully!">>),
           succeed(<<"View at:", explorerUrl, address>>)>>
    [] res.errorCode = 7 ->
         <<fail(<<"Compilation error in source files.">>),
           fail(<<"Details:", res.errorMsg>>)>>
    [] OTHER -> <<fail(<<"Unknown verification error occurred.">>)>>

\* switch (result.errorCode) { ... }
handleVerificationResult(res, id, address) ==
  LET explorerUrl == explorerUrls(id) IN
  CASE res.errorCode = 0 ->
         <<succeed(<<"Contract", res.contractName, "verified successfully!">>),
           succeed(<<"View at:", explorerUrl, address>>)>>
    [] res.errorCode = 1 -> <<fail(<<"Error: No source file provided.">>)>>
    [] res.errorCode = 2 -> <<fail(<<"Error: Contract initCode not found.">>)>>
    [] res.errorCode = 3 ->
         <<fail(<<"Error: Compiler version format incorrect.">>),
           fail(<<"Use long format (e.g., v0.7.6+commit.7338295f)">>)>>
    [] res.errorCode = 4 ->
         <<fail(<<"Error: Verification failed - bytecode mismatch.">>),
           fail(<<"Check source files and compiler settings.">>)>>
    [] res.errorCode = 5 -> <<fail(<<"Error: Unsupported language (Solidity only).">>)>>
    [] res.errorCode = 6 ->
         <<succeed(<<"Contract already verified at:", explorerUrl, address>>)>>
    [] res.errorCode = 7 ->
         <<fail(<<"Compilation error in source files.">>),
           fail(<<"Details:", res.errorMsg>>)>>
    [] OTHER -> <<fail(<<"Unknown verification error occurred.">>)>>

(***************************************************************************)
(* The submitter from the start: the forge command's check of --chain, the  *)
(* constructor, then the verify call                                        *)
(***************************************************************************)
InitSubmit ==
  /\ request \in SubmitRequests
  /\ chainId \in ChainIds
  /\ pc \in {"command", "new"}
  /\ baseUrl = UNDEFINED
  /\ fetchUrl = UNDEFINED
  /\ remappings = <<>>
  /\ remappedSourceFiles = <<>>
  /\ allAvailableFiles = <<>>
  /\ queue = <<>>
  /\ processed = {}
  /\ necessaryFiles = <<>>
  /\ warnings = <<>>
  /\ requestBody = NONE
  /\ posts = 0
  /\ response = NONE
  /\ error = NULL
  /\ result = NONE
  /\ unit = NONE
  /\ calls = <<>>
  /\ running = 0

\* if (!validChainIds.includes(options.chain)) { ...; process.exit(1) }
ValidateChain ==
  /\ pc = "command"
  /\ pc' = IF chainId \in validChainIds THEN "new" ELSE "exited"
  /\ UNCHANGED <<ctx, fetchUrl, unit, request, closureVars, requestBody, posts, response,
                 error, result>>

\* new FilfoxVerifier(chainId)
New ==
  /\ pc = "new"
  /\ LET this == constructor(chainId)
     IN  /\ baseUrl' = this.baseUrl
         /\ IF this.threw
            THEN /\ pc' = "threw"
                 /\ error' = <<"Error">>
            ELSE /\ pc' = "constructed"
                 /\ UNCHANGED error
  /\ UNCHANGED <<chainId, calls, running, fetchUrl, unit, request, closureVars,
                 requestBody, posts, response, result>>

\* verifier.verify(request) is called
Verify ==
  /\ pc = "constructed"
  /\ pc' = "parseRemappings"
  /\ UNCHANGED <<ctx, fetchUrl, unit, request, closureVars, requestBody, posts, response,
                 error, result>>

NextSubmit ==
  \/ ValidateChain
  \/ New
  \/ Verify
  \/ Next

SpecSubmit == InitSubmit /\ [][NextSubmit]_vars

(***************************************************************************)
(* Two verify calls in flight together.  A call runs on the one JavaScript  *)
(* thread from its entry, and from each resumption, to its next await; the  *)
(* awaits of verify are those of lines 79, 102 and 110.                     *)
(***************************************************************************)
singleVars == <<request, pc, closureVars, requestBody, posts, response, error, result,
                unit, chainId, baseUrl, fetchUrl>>

Instances == {constructor(id) : id \in validChainIds}

PairRequests ==
  {r \in SubmitRequests :
     /\ r.address = <<"0", "x", "A">>
     /\ r.compiler = c_Short
     /\ r.optimize
     /\ ~r.viaIR}

\* the locals of a call of verify that has not started
newCall(req, this) ==
  [pc |-> "idle", request |-> req, this |-> this,
   remappings |-> <<>>, remappedSourceFiles |-> <<>>, allAvailableFiles |-> <<>>,
   queue |-> <<>>, processed |-> {}, necessaryFiles |-> <<>>, warnings |-> <<>>,
   requestBody |-> NONE, fetchUrl |-> UNDEFINED, posts |-> 0, response |-> NONE,
   error |-> NULL, result |-> NONE]

catchStep(k, e) == [k EXCEPT !.error = e, !.result = [errorCode |-> 8], !.pc = "returned"]

parseStep(k) ==
  IF parseThrows(k.request.remappings)
  THEN catchStep(k, <<"TypeError">>)
  ELSE [k EXCEPT !.remappings = parseRemappings(k.request.remappings),
                 !.pc = "createRemapped"]

createStep(k) ==
  [k EXCEPT !.remappedSourceFiles = createRemappedSourceFiles(k.request.sourceFiles,
                                                              k.remappings),
            !.pc = "seed"]

\* mutant: the visited set is one set for all calls and is never emptied
seedStepSharedProcessed(k) ==
  [k EXCEPT !.allAvailableFiles = mergeAvailable(k.request.sourceFiles, k.remappedSourceFiles),
            !.queue = seedQueue(k.request.sourceFiles, k.remappedSourceFiles, k.remappings),
            !.processed = UNION {calls[d].processed : d \in DOMAIN calls},
            !.necessaryFiles = <<>>,
            !.pc = "loop"]

seedStep(k) ==
  [k EXCEPT !.allAvailableFiles = mergeAvailable(k.request.sourceFiles, k.remappedSourceFiles),
            !.queue = seedQueue(k.request.sourceFiles, k.remappedSourceFiles, k.remappings),
            !.processed = {},
            !.necessaryFiles = <<>>,
            !.pc = "loop"]

loopStep(k) ==
  LET st == loopBody([queue |-> k.queue, processed |-> k.processed,
                      necessaryFiles |-> k.necessaryFiles, warnings |-> k.warnings],
                     k.remappings, k.allAvailableFiles)
  IN  [k EXCEPT !.queue = st.queue, !.processed = st.processed,
                !.necessaryFiles = st.necessaryFiles, !.warnings = st.warnings]

postStep(k) ==
  [k EXCEPT !.requestBody = requestBodyOf(k.request, k.necessaryFiles),
            !.fetchUrl = k.this.baseUrl,
            !.posts = k.posts + 1,
            !.pc = "awaitFetch"]

\* mutant: the while loop gives up the thread after every iteration
holdsThreadNotInLoop(k) == k.pc \in {"parseRemappings", "createRemapped", "seed"}

\* the call is between its entry, or a resumption, and its next await
holdsThread(k) == k.pc \in {"parseRemappings", "createRemapped", "seed", "loop"}

\* the two callers of verify
Callers == {1, 2}

InitPair ==
  /\ calls \in [Callers -> {newCall(r, i) : r \in PairRequests, i \in Instances}]
  /\ running = 0
  /\ pc = "pair"
  /\ request = NONE
  /\ remappings = <<>>
  /\ remappedSourceFiles = <<>>
  /\ allAvailableFiles = <<>>
  /\ queue = <<>>
  /\ processed = {}
  /\ necessaryFiles = <<>>
  /\ warnings = <<>>
  /\ requestBody = NONE
  /\ posts = 0
  /\ response = NONE
  /\ error = NULL
  /\ result = NONE
  /\ unit = NONE
  /\ chainId = 314
  /\ baseUrl = FILFOX_NETWORKS(314)
  /\ fetchUrl = UNDEFINED

\* call c moves to k
Step(c, k) ==
  /\ calls' = [calls EXCEPT ![c] = k]
  /\ running' = IF holdsThread(k) THEN c ELSE 0
  /\ UNCHANGED singleVars

\* verify is called while no call holds the thread
EnterVerify(c) ==
  /\ running = 0
  /\ calls[c].pc = "idle"
  /\ Step(c, [calls[c] EXCEPT !.pc = "parseRemappings"])

ParseRemappingsOf(c) ==
  /\ running = c
  /\ calls[c].pc = "parseRemappings"
  /\ Step(c, parseStep(calls[c]))

CreateRemappedOf(c) ==
  /\ running = c
  /\ calls[c].pc = "createRemapped"
  /\ Step(c, createStep(calls[c]))

SeedOf(c) ==
  /\ running = c
  /\ calls[c].pc = "seed"
  /\ Step(c, seedStep(calls[c]))

LoopStepOf(c) ==
  /\ running = c
  /\ calls[c].pc = "loop"
  /\ calls[c].queue # <<>>
  /\ Step(c, loopStep(calls[c]))

\* resolveNecessaryImports returns; verify awaits its promise
AwaitClosure(c) ==
  /\ running = c
  /\ calls[c].pc = "loop"
  /\ calls[c].queue = <<>>
  /\ Step(c, [calls[c] EXCEPT !.pc = "awaitClosure"])

\* verify resumes, builds the body and calls fetch
PostOf(c) ==
  /\ running = 0
  /\ calls[c].pc = "awaitClosure"
  /\ Step(c, postStep(calls[c]))

FetchRejectsOf(c) ==
  /\ running = 0
  /\ calls[c].pc = "awaitFetch"
  /\ Step(c, catchStep(calls[c], <<"FetchError">>))

FetchResolvesOf(c) ==
  /\ running = 0
  /\ calls[c].pc = "awaitFetch"
  /\ \E body \in ResponseBodies :
       Step(c, [calls[c] EXCEPT !.response = body, !.pc = "awaitJson"])

JsonResolvesOf(c) ==
  /\ running = 0
  /\ calls[c].pc = "awaitJson"
  /\ calls[c].response.json
  /\ Step(c, [calls[c] EXCEPT !.result = [errorCode |-> calls[c].response.errorCode],
                              !.pc = "returned"])

JsonRejectsOf(c) ==
  /\ running = 0
  /\ calls[c].pc = "awaitJson"
  /\ ~calls[c].response.json
  /\ Step(c, catchStep(calls[c], <<"SyntaxError">>))

NextPair ==
  \/ \E c \in Callers : EnterVerify(c)
  \/ \E c \in Callers : ParseRemappingsOf(c)
  \/ \E c \in Callers : CreateRemappedOf(c)
  \/ \E c \in Callers : SeedOf(c)
  \/ \E c \in Callers : LoopStepOf(c)
  \/ \E c \in Callers : AwaitClosure(c)
  \/ \E c \in Callers : PostOf(c)
  \/ \E c \in Callers : FetchRejectsOf(c)
  \/ \E c \in Callers : FetchResolvesOf(c)
  \/ \E c \in Callers : JsonResolvesOf(c)
  \/ \E c \in Callers : JsonRejectsOf(c)

SpecPair == InitPair /\ [][NextPair]_vars

(***************************************************************************)
(* Direct calls of the helpers                                              *)
(***************************************************************************)
u_OzA == [original |-> <<"@", "o", "z", "/">>, resolved |-> <<"l", "i", "b", "/", "a", "/">>]
u_OzUtilsB == [original |-> <<"@", "o", "z", "/", "u", "t", "i", "l", "s", "/">>, resolved |-> <<"l", "i", "b", "/", "b", "/">>]
u_OzC == [original |-> <<"@", "o", "z", "/">>, resolved |-> <<"l", "i", "b", "/", "c", "/">>]
u_X == [original |-> <<"@", "x", "/">>, resolved |-> <<"l", "i", "b", "/", "x", "/">>]
i_OzMath == <<"@", "o", "z", "/", "u", "t", "i", "l", "s", "/", "M", "a", "t", "h", ".", "s", "o", "l">>
i_OzToken == <<"@", "o", "z", "/", "T", "o", "k", "e", "n", ".", "s", "o", "l">>
i_XY == <<"@", "x", "/", "Y", ".", "s", "o", "l">>
p_LibBMath == <<"l", "i", "b", "/", "b", "/", "M", "a", "t", "h", ".", "s", "o", "l">>

UnitRules == {u_OzA, u_OzUtilsB, u_OzC, u_X}

UnitImports == {i_OzMath, i_OzToken, i_XY, i_B}

UnitCalls ==
  {[fn |-> "resolveRemappedImport", args |-> <<imp, rules>>, out |-> NULL, done |-> FALSE] :
     imp \in UnitImports, rules \in SeqsUpTo(UnitRules, MaxRules)}

r_TwoEquals == <<"a", "=", "b", "=", "c">>
r_Spaced == <<" ", "a", " ", "=", " ", "b", " ">>

\* the arrays handed to parseRemappings
RemappingArrays == SeqsUpTo({r_Lib, r_TwoEquals, r_Spaced, r_NoEquals}, MaxRules)

t_a == <<"a">>
t_b == <<"b">>

\* the statements of a text: an import of one of the four forms, or other text
Statements == {Imp(f, t) : f \in ImportForms, t \in {t_a, t_b}} \cup {Text(<<"x">>)}

Contents == SeqsUpTo(Statements, MaxImports + 1)

NormalizeCalls ==
  {[fn |-> "normalizeCompilerVersion", args |-> <<c>>, out |-> NULL, done |-> FALSE] :
     c \in CompilerVersions}

ParseCalls ==
  {[fn |-> "parseRemappings", args |-> <<a>>, out |-> NULL, threw |-> FALSE, done |-> FALSE] :
     a \in RemappingArrays}

ExtractCalls ==
  {[fn |-> "extractImports", args |-> <<c>>, out |-> NULL, done |-> FALSE] :
     c \in Contents}

p_Main == <<"s", "r", "c", "/", "a", "/", "M", "a", "i", "n", ".", "s", "o", "l">>
p_Helper == <<"s", "r", "c", "/", "b", "/", "H", "e", "l", "p", "e", "r", ".", "s", "o", "l">>
p_LibHelper == <<"l", "i", "b", "/", "H", "e", "l", "p", "e", "r", ".", "s", "o", "l">>
p_Lib == <<"s", "r", "c", "/", "a", "/", "L", "i", "b", ".", "s", "o", "l">>
p_X == <<"X", ".", "s", "o", "l">>
\* a key that is itself written as a relative path
p_UpHelper == <<".", ".", "/", "b", "/", "H", "e", "l", "p", "e", "r", ".", "s", "o", "l">>
i_Lib == <<".", "/", "L", "i", "b", ".", "s", "o", "l">>
i_DotUpHelper == <<".", "/", ".", ".", "/", "b", "/", "H", "e", "l", "p", "e", "r", ".", "s", "o", "l">>
i_UpUpX == <<".", ".", "/", ".", ".", "/", "X", ".", "s", "o", "l">>

\* the results the server may send, and those verify makes up
Results ==
  {[errorCode |-> c, contractName |-> n, errorMsg |-> m] :
     c \in ServerCodes \cup {8}, n \in {"Token", "Vault"}, m \in {"ParserError", "TypeError"}}

HandleCalls ==
  {[fn |-> "handleVerificationResult", args |-> <<r, id, <<"0", "x", "A">>>>, out |-> NULL,
    done |-> FALSE] : r \in Results, id \in validChainIds}

RelativeUniverse == <<p_LibHelper, p_Helper, p_Lib, p_X, p_B, p_UpHelper>>

\* the available-file maps of the direct calls of resolveImportPath: a
\* selection of the universe, in its order, with empty contents
AvailableMaps ==
  LET RECURSIVE build(_, _)
      build(S, i) ==
        IF i > Len(RelativeUniverse) THEN <<>>
        ELSE IF i \in S
             THEN <<[path |-> RelativeUniverse[i], content |-> <<>>]>> \o build(S, i + 1)
             ELSE build(S, i + 1)
  IN  {build(S, 1) : S \in SUBSET (1..Len(RelativeUniverse))}

ResolveCalls ==
  {[fn |-> "resolveImportPath", args |-> <<i, f, rm, av>>, out |-> NULL, done |-> FALSE] :
     i \in {p_UpHelper, i_Lib, i_DotUpHelper, i_UpUpX, i_B},
     f \in {p_Main, p_A},
     rm \in {<<>>, <<u_X>>},
     av \in AvailableMaps}

\* calls in which several strategies have a candidate of their own
u_Dot == [original |-> <<".", "/">>, resolved |-> <<"l", "i", "b", "/">>]
i_XHelper == <<"@", "x", "/", "H", "e", "l", "p", "e", "r", ".", "s", "o", "l">>
p_LibLib == <<"l", "i", "b", "/", "L", "i", "b", ".", "s", "o", "l">>
p_VendorLib == <<"v", "e", "n", "d", "o", "r", "/", "L", "i", "b", ".", "s", "o", "l">>
p_LibXHelper == <<"l", "i", "b", "/", "x", "/", "H", "e", "l", "p", "e", "r", ".", "s", "o", "l">>
p_SrcAXHelper == <<"s", "r", "c", "/", "a", "/", "@", "x", "/", "H", "e", "l", "p", "e", "r", ".", "s", "o", "l">>

StrategyUniverse ==
  <<p_VendorLib, p_LibHelper, p_Lib, p_LibLib, p_LibXHelper, p_SrcAXHelper, i_Lib, i_XHelper>>

StrategyMaps ==
  LET RECURSIVE build(_, _)
      build(S, i) ==
        IF i > Len(StrategyUniverse) THEN <<>>
        ELSE IF i \in S
             THEN <<[path |-> StrategyUniverse[i], content |-> <<>>]>> \o build(S, i + 1)
             ELSE build(S, i + 1)
  IN  {build(S, 1) : S \in SUBSET (1..Len(StrategyUniverse))}

StrategyCalls ==
  {[fn |-> "resolveImportPath", args |-> <<i, p_Main, rm, av>>, out |-> NULL, done |-> FALSE] :
     i \in {i_Lib, i_XHelper},
     rm \in {<<>>, <<u_X>>, <<u_Dot, u_X>>},
     av \in StrategyMaps}

\* calls that reach the filename fallback
i_XYDeep == <<"x", "/", "y", "/", "D", "e", "e", "p", ".", "s", "o", "l">>
i_XYZDeep == <<"x", "/", "y", "/", "z", "/", "D", "e", "e", "p", ".", "s", "o", "l">>
i_UpUpDeep == <<".", ".", "/", ".", ".", "/", "D", "e", "e", "p", ".", "s", "o", "l">>
i_UpXDeep == <<".", ".", "/", "x", "/", "D", "e", "e", "p", ".", "s", "o", "l">>
p_LibOther == <<"l", "i", "b", "/", "O", "t", "h", "e", "r", ".", "s", "o", "l">>
p_LibDeep == <<"l", "i", "b", "/", "D", "e", "e", "p", ".", "s", "o", "l">>
p_XLibDeep == <<"x", "/", "l", "i", "b", "/", "D", "e", "e", "p", ".", "s", "o", "l">>
p_YXDeep == <<"y", "/", "x", "/", "D", "e", "e", "p", ".", "s", "o", "l">>
p_ZYDeep == <<"z", "/", "y", "/", "D", "e", "e", "p", ".", "s", "o", "l">>

FallbackUniverse == <<p_LibOther, p_LibDeep, p_XLibDeep, p_ZYDeep, p_YXDeep>>

FallbackMaps ==
  LET RECURSIVE build(_, _)
      build(S, i) ==
        IF i > Len(FallbackUniverse) THEN <<>>
        ELSE IF i \in S
             THEN <<[path |-> FallbackUniverse[i], content |-> <<>>]>> \o build(S, i + 1)
             ELSE build(S, i + 1)
  IN  {build(S, 1) : S \in SUBSET (1..Len(FallbackUniverse))}

FallbackCalls ==
  {[fn |-> "resolveImportPath", args |-> <<i, p_Main, <<>>, av>>, out |-> NULL, done |-> FALSE] :
     i \in {i_XYDeep, i_XYZDeep, i_UpUpDeep, i_UpXDeep},
     av \in FallbackMaps \ {<<>>}}

(***************************************************************************)
(* ContractDataExtractor.extractContractData (Hardhat contract discovery)   *)
(* Each of the three extractors reads the project's files; what it does is  *)
(* an input of the call: it returns contract data or it throws.             *)
(***************************************************************************)
ExtractorOrder == <<"deployments", "ignition", "artifacts">>

Returns(v) == [threw |-> FALSE, value |-> v]
Throws(e) == [threw |-> TRUE, value |-> e]

extractFromHardhatDeployments ==
  {Returns("deployments/Token"), Returns("deployments/Vault"),
   Throws("No deployment file found"), Throws("Contract not found in the sources provided")}

extractFromIgnitionDeployments ==
  {Returns("ignition/Token"), Returns("ignition/Vault"),
   Throws("Chain ID not found"), Throws("No Ignition deployments found")}

extractFromArtifacts ==
  {Returns("artifacts/Token"), Returns("artifacts/Vault"),
   Throws("Bytecode not found for address"), Throws("Artifacts directory not found")}

ExtractContractDataCalls ==
  {[fn |-> "extractContractData", args |-> <<d, i, a>>, at |-> 1, attempts |-> <<>>,
    out |-> UNDEFINED, threw |-> FALSE, error |-> UNDEFINED, done |-> FALSE] :
     d \in extractFromHardhatDeployments,
     i \in extractFromIgnitionDeployments,
     a \in extractFromArtifacts}

\* mutant: an extractor's error is not caught, the call fails at once
tryExtractorNoFallback(u, k) ==
  LET o == u.args[k]
      tried == [u EXCEPT !.attempts = Append(u.attempts, ExtractorOrder[k])]
  IN IF o.threw
       THEN [tried EXCEPT !.threw = TRUE, !.error = o.value, !.done = TRUE]
       ELSE [tried EXCEPT !.out = o.value, !.done = TRUE]

\* one try block: the k-th extractor is called; its value is returned, its
\* error is caught by the enclosing catch (k < 3) or leaves the function (k = 3)
tryExtractor(u, k) ==
  LET o == u.args[k]
      tried == [u EXCEPT !.attempts = Append(u.attempts, ExtractorOrder[k])]
  IN IF o.threw
       THEN IF k < Len(ExtractorOrder)
              THEN [tried EXCEPT !.at = k + 1]
              ELSE [tried EXCEPT !.threw = TRUE, !.error = o.value, !.done = TRUE]
       ELSE [tried EXCEPT !.out = o.value, !.done = TRUE]

InitUnit ==
  /\ \/ unit \in UnitCalls
     \/ unit \in NormalizeCalls
     \/ unit \in ParseCalls
     \/ unit \in ExtractCalls
     \/ unit \in HandleCalls
     \/ unit \in ResolveCalls
     \/ unit \in StrategyCalls
     \/ unit \in FallbackCalls
     \/ unit \in ExtractContractDataCalls
  /\ pc = "unit"
  /\ request = NONE
  /\ remappings = <<>>
  /\ remappedSourceFiles = <<>>
  /\ allAvailableFiles = <<>>
  /\ queue = <<>>
  /\ processed = {}
  /\ necessaryFiles = <<>>
  /\ warnings = <<>>
  /\ requestBody = NONE
  /\ posts = 0
  /\ response = NONE
  /\ error = NULL
  /\ result = NONE
  /\ chainId = 314
  /\ baseUrl = FILFOX_NETWORKS(314)
  /\ fetchUrl = UNDEFINED
  /\ calls = <<>>
  /\ running = 0

CallResolveRemappedImport ==
  /\ pc = "unit"
  /\ unit.fn = "resolveRemappedImport"
  /\ ~unit.done
  /\ unit' = [unit EXCEPT !.out = resolveRemappedImport(unit.args[1], unit.args[2]),
                          !.done = TRUE]
  /\ UNCHANGED <<ctx, fetchUrl, request, pc, closureVars, requestBody, posts, response,
                 error, result>>

CallNormalizeCompilerVersion ==
  /\ pc = "unit"
  /\ unit.fn = "normalizeCompilerVersion"
  /\ ~unit.done
  /\ unit' = [unit EXCEPT !.out = normalizeCompilerVersion(unit.args[1]), !.done = TRUE]
  /\ UNCHANGED <<ctx, fetchUrl, request, pc, closureVars, requestBody, posts, response,
                 error, result>>

CallParseRemappings ==
  /\ pc = "unit"
  /\ unit.fn = "parseRemappings"
  /\ ~unit.done
  /\ unit' = IF parseThrows(unit.args[1])
             THEN [unit EXCEPT !.threw = TRUE, !.done = TRUE]
             ELSE [unit EXCEPT !.out = parseRemappings(unit.args[1]), !.done = TRUE]
  /\ UNCHANGED <<ctx, fetchUrl, request, pc, closureVars, requestBody, posts, response,
                 error, result>>

CallExtractImports ==
  /\ pc = "unit"
  /\ unit.fn = "extractImports"
  /\ ~unit.done
  /\ unit' = [unit EXCEPT !.out = extractImports(unit.args[1]), !.done = TRUE]
  /\ UNCHANGED <<ctx, fetchUrl, request, pc, closureVars, requestBody, posts, response,
                 error, result>>

CallHandleVerificationResult ==
  /\ pc = "unit"
  /\ unit.fn = "handleVerificationResult"
  /\ ~unit.done
  /\ unit' = [unit EXCEPT !.out = handleVerificationResult(unit.args[1], unit.args[2],
                                                           unit.args[3]),
                          !.done = TRUE]
  /\ UNCHANGED <<ctx, fetchUrl, request, pc, closureVars, requestBody, posts, response,
                 error, result>>

CallResolveImportPath ==
  /\ pc = "unit"
  /\ unit.fn = "resolveImportPath"
  /\ ~unit.done
  /\ unit' = [unit EXCEPT !.out = resolveImportPath(unit.args[1], unit.args[2],
                                                    unit.args[3], unit.args[4]),
                          !.done = TRUE]
  /\ UNCHANGED <<ctx, fetchUrl, request, pc, closureVars, requestBody, posts, response,
                 error, result>>

ExtractFromHardhatDeployments ==
  /\ pc = "unit"
  /\ unit.fn = "extractContractData"
  /\ ~unit.done
  /\ unit.at = 1
  /\ unit' = tryExtractor(unit, 1)
  /\ UNCHANGED <<ctx, fetchUrl, request, pc, closureVars, requestBody, posts, response,
                 error, result>>

ExtractFromIgnitionDeployments ==
  /\ pc = "unit"
  /\ unit.fn = "extractContractData"
  /\ ~unit.done
  /\ unit.at = 2
  /\ unit' = tryExtractor(unit, 2)
  /\ UNCHANGED <<ctx, fetchUrl, request, pc, closureVars, requestBody, posts, response,
                 error, result>>

ExtractFromArtifacts ==
  /\ pc = "unit"
  /\ unit.fn = "extractContractData"
  /\ ~unit.done
  /\ unit.at = 3
  /\ unit' = tryExtractor(unit, 3)
  /\ UNCHANGED <<ctx, fetchUrl, request, pc, closureVars, requestBody, posts, response,
                 error, result>>

NextUnit ==
  \/ CallResolveRemappedImport
  \/ CallNormalizeCompilerVersion
  \/ CallParseRemappings
  \/ CallExtractImports
  \/ CallHandleVerificationResult
  \/ CallResolveImportPath
  \/ ExtractFromHardhatDeployments
  \/ ExtractFromIgnitionDeployments
  \/ ExtractFromArtifacts

SpecUnit == InitUnit /\ [][NextUnit]_vars

(***************************************************************************)
(* Vocabulary of the properties                                             *)
(***************************************************************************)
\* the traversal has run to its end: the closure was returned and posted
ClosureDone == pc = "awaitFetch"

SourcePaths == Range(keys(request.sourceFiles))

ResultPaths == Range(keys(necessaryFiles))

\* the paths the imports of the file stored under key f resolve to
ResolvedImports(f) ==
  {resolveImportPath(i, f, remappings, allAvailableFiles) :
     i \in Range(extractImports(get(allAvailableFiles, f)))} \ {NULL}

\* file a, a key of the available set, has an import that resolves to b
Imports(a, b) == b \in ResolvedImports(a)

(***************************************************************************)
(* C1  Closure minimality: whenever A imports B, B imports C and D is a     *)
(* supplied file that no other file imports, the returned map contains A,   *)
(* B and C and does not contain D.                                          *)
(***************************************************************************)
C1_ClosureMinimality ==
  ClosureDone =>
    \A a, b, c, d \in SourcePaths :
      ( /\ Cardinality({a, b, c, d}) = 4
        /\ Imports(a, b)
        /\ Imports(b, c)
        /\ \A f \in SourcePaths \ {d} : ~Imports(f, d) )
      => /\ {a, b, c} \subseteq ResultPaths
         /\ d \notin ResultPaths

(***************************************************************************)
(* C2  End-to-end scenario: for A.sol importing "./B.sol", B.sol and C.sol  *)
(* importing nothing, and no remappings, the closure is exactly             *)
(* {A.sol, B.sol}.                                                          *)
(***************************************************************************)
ScenarioABC ==
  /\ request.sourceFiles = <<[path |-> p_A, content |-> <<Imp(1, i_B)>>],
                             [path |-> p_B, content |-> <<>>],
                             [path |-> p_C, content |-> <<>>]>>
  /\ request.remappings = <<>>

C2_ScenarioClosureIsAB ==
  (ScenarioABC /\ ClosureDone) => ResultPaths = {p_A, p_B}

(***************************************************************************)
(* C3  At the end of the traversal every seed that is a key of the          *)
(* combined available set is a key of the result, and every key of the      *)
(* result is reachable from a seed by successful import resolutions.        *)
(***************************************************************************)
Seeds == Range(seedQueue(request.sourceFiles, remappedSourceFiles, remappings))

RECURSIVE ReachFrom(_)
ReachFrom(R) ==
  LET next == R \cup UNION {ResolvedImports(f) : f \in R}
  IN  IF next = R THEN R ELSE ReachFrom(next)

Reachable == ReachFrom({s \in Seeds : has(allAvailableFiles, s)})

C3_SeedsIncludedResultReachable ==
  ClosureDone =>
    /\ \A s \in Seeds : has(allAvailableFiles, s) => s \in ResultPaths
    /\ ResultPaths \subseteq Reachable

\* a finished traversal whose result holds a seed imported by another seed
\* and a file that is no seed and was reached through an import
C3_Witness ==
  /\ ClosureDone
  /\ \E a, b \in Seeds \cap ResultPaths : a # b /\ Imports(a, b)
  /\ ResultPaths \ Seeds # {}

(***************************************************************************)
(* C4  The result is closed under imports: every import of every file in    *)
(* the result either resolves to a key of the result, or is unresolved      *)
(* under all four strategies and was reported by a diagnostic naming the    *)
(* import and the referencing file.                                         *)
(***************************************************************************)
UnresolvedUnderAllFour(i, f) ==
  /\ directHit(i, allAvailableFiles) = NULL
  /\ relativeHit(i, f, allAvailableFiles) = NULL
  /\ remappedHit(i, remappings, allAvailableFiles) = NULL
  /\ fallbackHit(i, allAvailableFiles) = NULL

C4_ClosedUnderImports ==
  ClosureDone =>
    \A f \in ResultPaths :
      \A i \in Range(extractImports(get(necessaryFiles, f))) :
        \/ resolveImportPath(i, f, remappings, allAvailableFiles) \in ResultPaths
        \/ /\ UnresolvedUnderAllFour(i, f)
           /\ [importPath |-> i, from |-> f] \in Range(warnings)

\* a finished traversal with a file whose imports include one resolved by the
\* filename fallback, and a file with an unresolved import
C4_Witness ==
  /\ ClosureDone
  /\ warnings # <<>>
  /\ \E f \in ResultPaths :
       \E i \in Range(extractImports(get(necessaryFiles, f))) :
         /\ remappedHit(i, remappings, allAvailableFiles) = NULL
         /\ relativeHit(i, f, allAvailableFiles) = NULL
         /\ directHit(i, allAvailableFiles) = NULL
         /\ fallbackHit(i, allAvailableFiles) \in ResultPaths

(***************************************************************************)
(* C5  Remapping precedence: with the rule "@lib/=lib/token/", files at     *)
(* "@lib/Token.sol" and "lib/token/Token.sol" and a file importing          *)
(* "@lib/Token.sol", the closure has exactly one entry for Token, keyed     *)
(* "@lib/Token.sol", whose content is that of "lib/token/Token.sol".        *)
(***************************************************************************)
ScenarioToken ==
  /\ request.remappings = <<r_Lib>>
  /\ has(request.sourceFiles, p_AtLibToken)
  /\ has(request.sourceFiles, p_LibToken)
  /\ \E k \in 1..Len(request.sourceFiles) :
       /\ includes(extractImports(request.sourceFiles[k].content), p_AtLibToken)
       /\ ~includes(extractImports(request.sourceFiles[k].content), p_LibToken)

C5_RemappingPrecedence ==
  (ScenarioToken /\ ClosureDone) =>
    /\ {k \in ResultPaths : basename(k) = basename(p_AtLibToken)} = {p_AtLibToken}
    /\ get(necessaryFiles, p_AtLibToken) = get(request.sourceFiles, p_LibToken)

\* the scenario has run, and the two Token files differ in content
C5_Witness ==
  /\ ScenarioToken
  /\ ClosureDone
  /\ get(request.sourceFiles, p_AtLibToken) # get(request.sourceFiles, p_LibToken)

(***************************************************************************)
(* C6  Longest-prefix remapping: resolveRemappedImport rewrites the import  *)
(* with the rule of longest original among the rules whose original is a    *)
(* prefix of it, the first declared among equally long ones; with the       *)
(* rules "@oz/=lib/a/" and "@oz/utils/=lib/b/" in either order,             *)
(* "@oz/utils/Math.sol" becomes "lib/b/Math.sol".                           *)
(***************************************************************************)
LongestPrefixRule(imp, rules) ==
  LET M == {i \in 1..Len(rules) : startsWith(imp, rules[i].original)}
  IN  IF M = {} THEN 0
      ELSE CHOOSE i \in M :
             \A j \in M : \/ Len(rules[j].original) < Len(rules[i].original)
                          \/ Len(rules[j].original) = Len(rules[i].original) /\ i <= j

C6_LongestPrefixFirstDeclared ==
  (unit # NONE /\ unit.fn = "resolveRemappedImport" /\ unit.done) =>
    LET imp == unit.args[1]
        rules == unit.args[2]
        best == LongestPrefixRule(imp, rules)
    IN  /\ best = 0 => unit.out = NULL
        /\ best # 0 =>
             unit.out = rules[best].resolved \o
                        SubSeq(imp, Len(rules[best].original) + 1, Len(imp))
        /\ (imp = i_OzMath /\ {u_OzA, u_OzUtilsB} = Range(rules)) => unit.out = p_LibBMath

\* the call of the example: the shorter matching rule is declared before the
\* longer one
C6_Witness ==
  /\ unit # NONE
  /\ unit.done
  /\ unit.args = <<i_OzMath, <<u_OzA, u_OzUtilsB>>>>
  /\ unit.out = p_LibBMath

(***************************************************************************)
(* C7  An unresolvable import is not fatal: the traversal raises no         *)
(* exception and returns the closure it would return if the unresolvable    *)
(* import statements were absent from the files.                            *)
(***************************************************************************)
\* the keys under which the content of the source file at p can be traversed
KeysOf(p) ==
  LET m == findRemapping(p, remappings)
  IN  IF m = 0 THEN {p}
      ELSE {p, replace(p, remappings[m].resolved, remappings[m].original)}

Unresolvable(t, p) ==
  \A k \in KeysOf(p) : resolveImportPath(t, k, remappings, allAvailableFiles) = NULL

WithoutUnresolvable(sourceFiles) ==
  [k \in 1..Len(sourceFiles) |->
     [path |-> sourceFiles[k].path,
      content |-> SelectSeq(sourceFiles[k].content, LAMBDA st :
                    ~(st.form \in ImportForms /\ Unresolvable(st.target, sourceFiles[k].path)))]]

C7_UnresolvableImportNotFatal ==
  ClosureDone =>
    LET stripped == WithoutUnresolvable(request.sourceFiles)
    IN  /\ pc = "awaitFetch" => error = NULL
        /\ ResultPaths =
             Range(keys(resolveNecessaryImports(
                          stripped, createRemappedSourceFiles(stripped, remappings),
                          remappings)))

\* a finished traversal in which a file has an unresolvable import followed by
\* an import that resolves to a file that is not a seed
C7_Witness ==
  /\ ClosureDone
  /\ \E f \in ResultPaths :
       LET imports == extractImports(get(necessaryFiles, f)) IN
         \E m, n \in 1..Len(imports) :
           /\ m < n
           /\ UnresolvedUnderAllFour(imports[m], f)
           /\ resolveImportPath(imports[n], f, remappings, allAvailableFiles)
                \in ResultPaths \ Seeds

(***************************************************************************)
(* C8  The traversal terminates, also on cyclic and self imports: every     *)
(* dequeue that is not skipped strictly grows the processed set, the loop   *)
(* takes only finitely many steps in every behaviour, and it is left with   *)
(* an empty queue.                                                          *)
(***************************************************************************)
C8_TraversalTerminates ==
  /\ [][(pc = "loop" /\ queue # <<>> /\ Head(queue) \notin processed)
          => (processed \subseteq processed' /\ processed' # processed)]_vars
  /\ <>[][pc # "loop"]_vars
  /\ [](pc \in {"awaitFetch", "awaitJson", "returned"} => queue = <<>>)

\* a finished traversal over files that import one another, and over a file
\* that imports itself
C8_Witness ==
  /\ ClosureDone
  /\ \E a, b \in ResultPaths : a # b /\ Imports(a, b) /\ Imports(b, a)
  /\ \E c \in ResultPaths : Imports(c, c)

(***************************************************************************)
(* C9  A malformed remapping rule (no "=", or an empty side after           *)
(* trimming) makes the call fail at once with a ConfigError, distinct from  *)
(* every result code; it is never accepted as a rule and never reported as  *)
(* a transport failure.                                                     *)
(***************************************************************************)
Malformed(rule) ==
  LET parts == split(rule, "=")
  IN  \/ Len(parts) < 2
      \/ trim(parts[1]) = <<>>
      \/ trim(parts[2]) = <<>>

C9_MalformedRuleIsConfigError ==
  ( /\ pc \notin {"unit", "parseRemappings"}
    /\ \E k \in 1..Len(request.remappings) : Malformed(request.remappings[k]) )
  => /\ pc = "returned"
     /\ error = <<"ConfigError">>
     /\ result = NONE

(***************************************************************************)
(* C10  The result code 8 is returned only when the POST was attempted and  *)
(* failed in transport before a response was obtained: not for a failure    *)
(* before the request is sent, nor for one after the response arrived.      *)
(***************************************************************************)
C10_Code8OnlyOnTransportFailure ==
  (result # NONE /\ result.errorCode = 8) =>
    /\ posts = 1
    /\ response = NONE
    /\ error = <<"FetchError">>

(***************************************************************************)
(* C11  Chain-endpoint selection: an instance made for chain 314 posts to   *)
(* the mainnet URL and one made for chain 314159 to the calibration URL,    *)
(* two different URLs; for every other chain id the construction fails, no  *)
(* request body is built and no network call is made.                       *)
(***************************************************************************)
Constructed == pc \notin {"command", "new", "exited", "threw", "unit", "pair"}

C11_ChainEndpointSelection ==
  /\ (Constructed /\ chainId = 314) =>
        baseUrl = "https://filfox.info/api/v1/tools/verifyContract"
  /\ (Constructed /\ chainId = 314159) =>
        baseUrl = "https://calibration.filfox.info/api/v1/tools/verifyContract"
  /\ "https://filfox.info/api/v1/tools/verifyContract"
       # "https://calibration.filfox.info/api/v1/tools/verifyContract"
  /\ posts > 0 => fetchUrl = baseUrl
  /\ chainId \notin {314, 314159} =>
       /\ pc \in {"command", "new", "exited", "threw"}
       /\ pc = "threw" => error = <<"Error">>
       /\ requestBody = NONE
       /\ posts = 0
       /\ fetchUrl = UNDEFINED

\* the constructor was called with a chain id that is no key of the table,
\* and threw
C11_Witness ==
  /\ pc = "threw"
  /\ chainId = 315
  /\ error = <<"Error">>

(***************************************************************************)
(* C12  normalizeCompilerVersion returns its input when the input starts    *)
(* with "v" and "v" followed by the input otherwise, also when the input    *)
(* has a "v" at a later position; the output always starts with "v".        *)
(***************************************************************************)
Called(fn) == unit # NONE /\ unit.fn = fn /\ unit.done

C12_LeadingVersionMarker ==
  Called("normalizeCompilerVersion") =>
    LET compiler == unit.args[1] IN
      /\ startsWith(unit.out, <<"v">>)
      /\ unit.out = IF startsWith(compiler, <<"v">>) THEN compiler
                    ELSE <<"v">> \o compiler

(***************************************************************************)
(* C13  parseRemappings splits each rule string on its first "=" only       *)
(* ("a=b=c" gives original "a" and resolved "b=c"), trims both sides, and   *)
(* returns one rule per input string, in input order, duplicates kept.      *)
(***************************************************************************)
beforeFirstEquals(rule) == SubSeq(rule, 1, indexOf(rule, <<"=">>))

afterFirstEquals(rule) == SubSeq(rule, indexOf(rule, <<"=">>) + 2, Len(rule))

C13_SplitOnFirstEquals ==
  (Called("parseRemappings") /\ ~unit.threw) =>
    LET rules == unit.args[1] IN
      /\ Len(unit.out) = Len(rules)
      /\ \A i \in 1..Len(rules) :
           /\ unit.out[i].original = trim(beforeFirstEquals(rules[i]))
           /\ unit.out[i].resolved = trim(afterFirstEquals(rules[i]))
      /\ (rules = <<r_TwoEquals>>) =>
           unit.out = <<[original |-> <<"a">>, resolved |-> <<"b", "=", "c">>]>>

(***************************************************************************)
(* C14  extractImports returns the distinct import targets of a text in     *)
(* the order of their first appearance in the text, whatever the form of    *)
(* each statement: for `import {X} from "a"; import "b";` it returns        *)
(* ["a", "b"].                                                              *)
(***************************************************************************)
\* the targets of the import statements of a text, in the order of the text
targetsOf(content) ==
  LET stmts == SelectSeq(content, LAMBDA st : st.form \in ImportForms)
  IN  [k \in 1..Len(stmts) |-> stmts[k].target]

RECURSIVE firstAppearances(_, _)
firstAppearances(targets, seen) ==
  IF targets = <<>> THEN seen
  ELSE firstAppearances(Tail(targets),
         IF includes(seen, Head(targets)) THEN seen ELSE Append(seen, Head(targets)))

C14_OrderOfFirstAppearance ==
  Called("extractImports") =>
    /\ unit.out = firstAppearances(targetsOf(unit.args[1]), <<>>)
    /\ (unit.args[1] = <<Imp(2, t_a), Imp(1, t_b)>>) => unit.out = <<t_a, t_b>>

(***************************************************************************)
(* C14, amended  extractImports returns the distinct import targets of a    *)
(* text, each once, ordered by the earliest of the four forms under which   *)
(* the target is imported (bare, braces, star, alias) and, among targets    *)
(* of the same earliest form, by first appearance under that form.          *)
(***************************************************************************)
\* the earliest form under which target t is imported, and where it first
\* appears under that form
firstForm(content, t) ==
  CHOOSE f \in ImportForms :
    /\ \E k \in 1..Len(content) : content[k] = Imp(f, t)
    /\ \A g \in ImportForms :
         (\E k \in 1..Len(content) : content[k] = Imp(g, t)) => f <= g

firstPlace(content, t) ==
  CHOOSE k \in 1..Len(content) :
    /\ content[k] = Imp(firstForm(content, t), t)
    /\ \A j \in 1..Len(content) : content[j] = content[k] => k <= j

C14_OrderedByFormThenAppearance ==
  Called("extractImports") =>
    LET content == unit.args[1]
        out == unit.out
    IN  /\ Range(out) = Range(targetsOf(content))
        /\ \A m, n \in 1..Len(out) : m # n => out[m] # out[n]
        /\ \A m, n \in 1..Len(out) :
             m < n =>
               \/ firstForm(content, out[m]) < firstForm(content, out[n])
               \/ /\ firstForm(content, out[m]) = firstForm(content, out[n])
                  /\ firstPlace(content, out[m]) < firstPlace(content, out[n])

\* the call of the example: the braces form comes before the bare form in the
\* text, and the result lists the target of the bare form first
C14_Witness ==
  /\ Called("extractImports")
  /\ unit.args[1] = <<Imp(2, t_a), Imp(1, t_b)>>
  /\ unit.out = <<t_b, t_a>>

(***************************************************************************)
(* C15  Running the closure computation twice on identical inputs (the      *)
(* same source-file map in the same key order, the same remappings in the   *)
(* same order) yields identical output: the same paths with the same        *)
(* contents.                                                                *)
(***************************************************************************)
TraversalOver(c) == calls[c].pc \in {"awaitClosure", "awaitFetch", "awaitJson"}

SameInputs ==
  /\ calls[1].request.sourceFiles = calls[2].request.sourceFiles
  /\ calls[1].request.remappings = calls[2].request.remappings

PassedThrough == {"address", "language", "optimize", "optimizeRuns", "license",
                  "evmVersion", "viaIR", "libraries", "optimizerDetails"}

\* the closure of the request, computed in one piece from the request alone
ClosureOf(req) ==
  LET rules == parseRemappings(req.remappings)
  IN  resolveNecessaryImports(req.sourceFiles,
                              createRemappedSourceFiles(req.sourceFiles, rules), rules)

C16_PayloadIsRequestWithClosure ==
  (pc \notin {"unit", "pair"} /\ requestBody # NONE) =>
    /\ DOMAIN requestBody = PassedThrough \cup {"compiler", "sourceFiles", "metadata"}
    /\ \A f \in PassedThrough : requestBody[f] = request[f]
    /\ requestBody.sourceFiles = necessaryFiles
    /\ requestBody.sourceFiles = ClosureOf(request)
    /\ requestBody.metadata = <<>>
    /\ requestBody.compiler \in {request.compiler, <<"v">> \o request.compiler}

\* a body was posted whose source files are not the supplied ones, for a
\* request with remapping rules in its metadata
C16_Witness ==
  /\ pc = "awaitFetch"
  /\ requestBody # NONE
  /\ requestBody.sourceFiles # request.sourceFiles
  /\ request.remappings # <<>>
  /\ request.viaIR
  /\ ~request.optimize

(***************************************************************************)
(* C17  A verify call makes at most one POST: a transport failure is        *)
(* reported once, as the outcome of the call (code 8), the request is not   *)
(* sent again, and nothing follows the return of the call.                  *)
(***************************************************************************)
C17_AtMostOnePost ==
  /\ [](posts <= 1)
  /\ [][posts' # posts => (posts = 0 /\ posts' = 1 /\ pc' = "awaitFetch")]_vars
  /\ [][(pc = "awaitFetch" /\ error' = <<"FetchError">>)
          => (pc' = "returned" /\ result' = [errorCode |-> 8] /\ posts' = posts)]_vars
  /\ [][pc # "returned"]_vars

\* the one request failed in transport and the call has returned code 8
C17_Witness ==
  /\ pc = "returned"
  /\ error = <<"FetchError">>
  /\ posts = 1
  /\ response = NONE
  /\ result = [errorCode |-> 8]

(***************************************************************************)
(* C18  handleVerificationResult reports the codes 0 and 6, and no other    *)
(* code, as success; the codes 1 to 5 and 7, the code 8 made up by verify   *)
(* and every unrecognized code are reported as failure; the report of code  *)
(* 7 carries the server's errorMsg and that of code 0 the contract name.    *)
(***************************************************************************)
ReportedAs(kind) ==
  /\ unit.out # <<>>
  /\ \A k \in 1..Len(unit.out) : unit.out[k].kind = kind

Surfaces(value) ==
  \E k \in 1..Len(unit.out) : includes(unit.out[k].text, value)

C18_ResultCodeInterpretation ==
  Called("handleVerificationResult") =>
    LET res == unit.args[1] IN
      /\ res.errorCode \in {0, 6} => ReportedAs("succeed")
      /\ res.errorCode \notin {0, 6} => ReportedAs("fail")
      /\ res.errorCode = 7 => Surfaces(res.errorMsg)
      /\ res.errorCode = 0 => Surfaces(res.contractName)

\* the report of "already verified"
C18_Witness ==
  /\ Called("handleVerificationResult")
  /\ unit.args[1].errorCode = 6
  /\ ReportedAs("succeed")

(***************************************************************************)
(* C19  Relative imports: an import that starts with "./" or "../" and is   *)
(* no key of the available set itself is resolved against the directory of  *)
(* the importing file, with "." and ".." segments normalized, and found     *)
(* when the normalized path is a key; "src/a/Main.sol" importing            *)
(* "../b/Helper.sol" resolves to "src/b/Helper.sol" when that key exists.   *)
(***************************************************************************)
\* the normalized path of each relative import of the calls, written out
NormalizedPath(importPath, currentFile) ==
  CASE currentFile = p_Main /\ importPath = p_UpHelper -> p_Helper
    [] currentFile = p_Main /\ importPath = i_DotUpHelper -> p_Helper
    [] currentFile = p_Main /\ importPath = i_Lib -> p_Lib
    [] currentFile = p_Main /\ importPath = i_UpUpX -> p_X
    [] currentFile = p_Main /\ importPath = i_B -> <<"s", "r", "c", "/", "a", "/", "B", ".", "s", "o", "l">>
    [] currentFile = p_A /\ importPath = p_UpHelper -> <<".", ".", "/", "b", "/", "H", "e", "l", "p", "e", "r", ".", "s", "o", "l">>
    [] currentFile = p_A /\ importPath = i_DotUpHelper -> <<".", ".", "/", "b", "/", "H", "e", "l", "p", "e", "r", ".", "s", "o", "l">>
    [] currentFile = p_A /\ importPath = i_Lib -> <<"L", "i", "b", ".", "s", "o", "l">>
    [] currentFile = p_A /\ importPath = i_UpUpX -> <<".", ".", "/", ".", ".", "/", "X", ".", "s", "o", "l">>
    [] currentFile = p_A /\ importPath = i_B -> p_B
    [] currentFile = p_Main /\ importPath = i_UpUpDeep -> <<"D", "e", "e", "p", ".", "s", "o", "l">>
    [] currentFile = p_Main /\ importPath = i_UpXDeep -> <<"s", "r", "c", "/", "x", "/", "D", "e", "e", "p", ".", "s", "o", "l">>

OutcomeAlone(k) ==
  IF parseThrows(k.request.remappings) \/ k.response = NONE \/ ~k.response.json
  THEN [errorCode |-> 8]
  ELSE [errorCode |-> k.response.errorCode]

InTraversal(k) == k.pc \in {"parseRemappings", "createRemapped", "seed", "loop"}

C20_InterleavedCallsIndependent ==
  /\ [](pc = "pair" =>
         \A c \in DOMAIN calls :
           /\ calls[c].requestBody # NONE =>
                /\ calls[c].requestBody =
                     requestBodyOf(calls[c].request, ClosureOf(calls[c].request))
                /\ calls[c].fetchUrl = calls[c].this.baseUrl
           /\ calls[c].pc = "returned" => calls[c].result = OutcomeAlone(calls[c])
           /\ InTraversal(calls[c]) =>
                /\ running = c
                /\ \A d \in DOMAIN calls \ {c} : ~InTraversal(calls[d]))
  /\ [][pc = "pair" =>
          \A c \in DOMAIN calls :
            /\ calls'[c] # calls[c] => \A d \in DOMAIN calls \ {c} : calls'[d] = calls[d]
            /\ InTraversal(calls[c]) => \A d \in DOMAIN calls \ {c} : calls'[d] = calls[d]]_vars

\* one call is suspended at its fetch while the other, for other source
\* files, is in the middle of its traversal
C20_Witness ==
  /\ pc = "pair"
  /\ calls[1].pc = "awaitFetch"
  /\ calls[2].pc = "loop"
  /\ calls[2].processed # {}
  /\ calls[2].queue # <<>>
  /\ calls[1].request.sourceFiles # calls[2].request.sourceFiles
  /\ calls[1].this = calls[2].this

(***************************************************************************)
(* C21  verify only reads the caller's request: no step of a call changes   *)
(* request.sourceFiles (keys and contents) or the remappings of             *)
(* request.metadata, whether the call returns the server's result or        *)
(* errorCode 8.                                                             *)
(***************************************************************************)
C21_RequestOnlyRead ==
  [][pc \notin {"unit", "pair"} =>
       /\ request'.sourceFiles = request.sourceFiles
       /\ request'.remappings = request.remappings
       /\ request' = request]_vars

\* a call that made aliases of the supplied files has ended with errorCode 8
C21_Witness ==
  /\ pc = "returned"
  /\ result = [errorCode |-> 8]
  /\ remappedSourceFiles # <<>>
  /\ necessaryFiles # <<>>
  /\ keys(necessaryFiles) # keys(request.sourceFiles)

(***************************************************************************)
(* C22  extractContractData follows the chain deployments -> ignition ->    *)
(* artifacts: the hardhat-deploy result is returned whenever that           *)
(* extraction succeeds; Ignition is attempted only after hardhat-deploy     *)
(* threw, artifacts only after both threw; when the last one throws too,    *)
(* its error reaches the caller.                                            *)
(***************************************************************************)
Attempted(name) == \E k \in DOMAIN unit.attempts : unit.attempts[k] = name

C22_FallbackChain ==
  (unit # NONE /\ unit.fn = "extractContractData") =>
    LET d == unit.args[1]
        i == unit.args[2]
        a == unit.args[3]
    IN /\ Len(unit.attempts) <= 3
       /\ unit.attempts = SubSeq(ExtractorOrder, 1, Len(unit.attempts))
       /\ Attempted("ignition") => d.threw
       /\ Attempted("artifacts") => d.threw /\ i.threw
       /\ ~unit.done => unit.out = UNDEFINED /\ ~unit.threw
       /\ unit.done =>
            /\ ~d.threw =>
                 unit.out = d.value /\ ~unit.threw /\ unit.attempts = <<"deployments">>
            /\ d.threw /\ ~i.threw =>
                 unit.out = i.value /\ ~unit.threw /\ ~Attempted("artifacts")
            /\ d.threw /\ i.threw /\ ~a.threw =>
                 unit.out = a.value /\ ~unit.threw
            /\ d.threw /\ i.threw /\ a.threw =>
                 unit.threw /\ unit.error = a.value /\ unit.out = UNDEFINED

\* all three extractors were tried and the error of the last one left the call
C22_Witness ==
  /\ Called("extractContractData")
  /\ unit.attempts = ExtractorOrder
  /\ unit.threw
  /\ unit.error = "Artifacts directory not found"

(***************************************************************************)
(* C23  Seed queue order: in the initial queue every alias path comes       *)
(* before every original path, and an original path is a seed exactly when  *)
(* no rule's resolved string is a prefix of it; an original file that has   *)
(* an alias is not a seed under its original path.                          *)
(***************************************************************************)
JustSeeded == pc = "loop" /\ processed = {}

HasAlias(p) == \E m \in 1..Len(remappings) : startsWith(p, remappings[m].resolved)

C23_SeedQueueOrder ==
  JustSeeded =>
    LET aliases == keys(remappedSourceFiles)
        originals == SelectSeq(keys(request.sourceFiles), LAMBDA p : ~HasAlias(p))
        n == Len(aliases)
    IN /\ Len(queue) = n + Len(originals)
       /\ SubSeq(queue, 1, n) = aliases
       /\ SubSeq(queue, n + 1, Len(queue)) = originals
       /\ \A p \in SourcePaths :
            HasAlias(p) => \A k \in n + 1..Len(queue) : queue[k] # p
       /\ \A p \in SourcePaths :
            ~HasAlias(p) => \E k \in n + 1..Len(queue) : queue[k] = p

\* a queue with an alias in front of an original, one supplied file left out
C23_Witness ==
  /\ JustSeeded
  /\ remappedSourceFiles # <<>>
  /\ Len(queue) > Len(remappedSourceFiles)
  /\ \E p \in SourcePaths : HasAlias(p) /\ p \notin Range(queue)

(***************************************************************************)
(* C24  Only one copy of an aliased file wins: the closure never has both   *)
(* the original path and the alias path of the same supplied file as keys,  *)
(* whatever the other files import.                                         *)
(***************************************************************************)
AliasOf(p) ==
  LET m == findRemapping(p, remappings)
  IN  replace(p, remappings[m].resolved, remappings[m].original)

C24_OnlyOneCopyWins ==
  ClosureDone =>
    \A p \in SourcePaths :
      (HasAlias(p) /\ AliasOf(p) # p) =>
        ~(p \in ResultPaths /\ AliasOf(p) \in ResultPaths)

(***************************************************************************)
(* C25  resolveImportPath tries direct hit, relative import, remapped       *)
(* import, filename fallback in this order and returns the first hit: a     *)
(* later strategy's path is returned only if every earlier one missed, the  *)
(* relative strategy is tried only for imports starting with "./" or        *)
(* "../", and a non-null result is a key of the available set.              *)
(***************************************************************************)
IsRelative(importPath) ==
  startsWith(importPath, <<".", "/">>) \/ startsWith(importPath, <<".", ".", "/">>)

C25_StrategyOrder ==
  Called("resolveImportPath") =>
    LET importPath == unit.args[1]
        currentFile == unit.args[2]
        rules == unit.args[3]
        availableFiles == unit.args[4]
        K == Range(keys(availableFiles))
        s1 == directHit(importPath, availableFiles)
        s2 == relativeHit(importPath, currentFile, availableFiles)
        s3 == remappedHit(importPath, rules, availableFiles)
        s4 == fallbackHit(importPath, availableFiles)
    IN  /\ unit.out # NULL => unit.out \in K
        /\ s1 # NULL => unit.out = s1
        /\ (s1 = NULL /\ s2 # NULL) => unit.out = s2
        /\ (s1 = NULL /\ s2 = NULL /\ s3 # NULL) => unit.out = s3
        /\ (s1 = NULL /\ s2 = NULL /\ s3 = NULL) => unit.out = s4
        /\ ~IsRelative(importPath) => s2 = NULL
        \* the same, on the calls where the strategies disagree
        /\ importPath \in K => unit.out = importPath
        /\ (importPath = i_Lib /\ currentFile = p_Main /\ i_Lib \notin K /\ p_Lib \in K)
             => unit.out = p_Lib
        /\ (importPath = i_Lib /\ currentFile = p_Main /\ rules = <<u_Dot, u_X>>
               /\ i_Lib \notin K /\ p_Lib \notin K /\ p_LibLib \in K)
             => unit.out = p_LibLib
        /\ (importPath = i_XHelper /\ u_X \in Range(rules) /\ i_XHelper \notin K
               /\ p_LibXHelper \in K)
             => unit.out = p_LibXHelper
        /\ (importPath = i_XHelper /\ rules = <<>>
               /\ keys(availableFiles) = <<p_LibHelper, p_SrcAXHelper>>)
             => unit.out = p_LibHelper

\* "./Lib.sol" from src/a/Main.sol with a rule for "./": the relative path
\* wins over the remapped path and over the first file named Lib.sol
C25_Witness ==
  /\ Called("resolveImportPath")
  /\ unit.args[1] = i_Lib
  /\ unit.args[2] = p_Main
  /\ unit.args[3] = <<u_Dot, u_X>>
  /\ keys(unit.args[4]) = <<p_VendorLib, p_Lib, p_LibLib>>
  /\ unit.out = p_Lib

(***************************************************************************)
(* C26  Filename fallback: an import that strategies 1-3 do not resolve     *)
(* resolves to the first key, in iteration order, with the import's base    *)
(* filename and with at most one of the import's non-final path segments    *)
(* missing from the candidate's segments; a candidate with two or more      *)
(* mismatching non-final segments is never accepted; with no such           *)
(* candidate the import is unresolved.                                      *)
(***************************************************************************)
FallbackReached ==
  /\ Called("resolveImportPath")
  /\ directHit(unit.args[1], unit.args[4]) = NULL
  /\ relativeHit(unit.args[1], unit.args[2], unit.args[4]) = NULL
  /\ remappedHit(unit.args[1], unit.args[3], unit.args[4]) = NULL

\* the segments between the slashes, all of them
AllSegments(p) == split(p, "/")

\* the segments that name something: not empty, not "." and not ".."
NamedSegments(p) ==
  SelectSeq(split(p, "/"), LAMBDA x : x \notin {<<>>, <<".">>, <<".", ".">>})

LastOf(q) == IF q = <<>> THEN <<>> ELSE q[Len(q)]

\* how many of the non-final segments of the import the candidate lacks
MissingOf(importSegs, candidateSegs) ==
  Cardinality({k \in 1..Len(importSegs) - 1 : importSegs[k] \notin Range(candidateSegs)})

FirstQualifying(availableFiles, Qualifies(_)) ==
  LET hits == {k \in 1..Len(availableFiles) : Qualifies(availableFiles[k].path)}
  IN  IF hits = {} THEN NULL
      ELSE availableFiles[CHOOSE k \in hits : \A j \in hits : k <= j].path

\* as stated: every segment of the import counts, "." and ".." too
C26_FallbackAllSegments ==
  FallbackReached =>
    LET importPath == unit.args[1]
        Qualifies(c) ==
          /\ LastOf(AllSegments(c)) = LastOf(AllSegments(importPath))
          /\ MissingOf(AllSegments(importPath), AllSegments(c)) <= 1
    IN  unit.out = FirstQualifying(unit.args[4], Qualifies)

\* amended: only the named segments of the import and of the candidate count
C26_FallbackNamedSegments ==
  FallbackReached =>
    LET importPath == unit.args[1]
        Qualifies(c) ==
          /\ LastOf(AllSegments(c)) = LastOf(AllSegments(importPath))
          /\ MissingOf(NamedSegments(importPath), NamedSegments(c)) <= 1
    IN  /\ unit.out = FirstQualifying(unit.args[4], Qualifies)
        /\ \A k \in 1..Len(unit.args[4]) :
             MissingOf(NamedSegments(importPath), NamedSegments(unit.args[4][k].path)) >= 2
               => unit.out # unit.args[4][k].path

\* "x/y/Deep.sol": lib/Deep.sol lacks x and y and is passed over, x/lib/Deep.sol
\* lacks only y and is taken
C26_Witness ==
  /\ FallbackReached
  /\ unit.args[1] = i_XYDeep
  /\ keys(unit.args[4]) = <<p_LibOther, p_LibDeep, p_XLibDeep, p_YXDeep>>
  /\ unit.out = p_XLibDeep

(***************************************************************************)
(* C27  verify never rejects or throws: whatever the request and whatever   *)
(* the network does, a call that ends returns the server's decoded JSON     *)
(* result or the object {errorCode: 8}; a transport failure of the POST is  *)
(* returned as errorCode 8, not raised.                                     *)
(***************************************************************************)
VerifyPositions ==
  {"parseRemappings", "createRemapped", "seed", "loop", "awaitFetch", "awaitJson", "returned"}

C27_VerifyNeverRejects ==
  pc \notin {"unit", "pair"} =>
    /\ pc \in VerifyPositions
    /\ pc = "returned" =>
         \/ result = [errorCode |-> 8] /\ error # NULL
         \/ /\ error = NULL
            /\ response # NONE
            /\ response.json
            /\ result = [errorCode |-> response.errorCode]
    /\ error # NULL => pc = "returned" /\ result = [errorCode |-> 8]
    /\ pc # "returned" => result = NONE

\* the POST was sent, the transport failed, the call returned errorCode 8
C27_Witness ==
  /\ pc = "returned"
  /\ posts = 1
  /\ error = <<"FetchError">>
  /\ result = [errorCode |-> 8]

(***************************************************************************)
(* C28  Coverage of the input: for every supplied source file the closure   *)
(* holds the file's content under its alias path (when some rule's          *)
(* resolved is a prefix of its path) or under its original path             *)
(* (otherwise), unless a later alias overwrote the same alias key; with an  *)
(* empty remapping list the closure's keys are the supplied keys.           *)
(***************************************************************************)
\* the file at place k of the request has an alias which a later file's alias
\* overwrites
OverwrittenLater(k) ==
  \E j \in k + 1..Len(request.sourceFiles) :
    /\ HasAlias(request.sourceFiles[j].path)
    /\ AliasOf(request.sourceFiles[j].path) = AliasOf(request.sourceFiles[k].path)

\* the path of the file at place k is also the alias of some supplied file
ShadowedByAlias(k) ==
  \E j \in 1..Len(request.sourceFiles) :
    /\ HasAlias(request.sourceFiles[j].path)
    /\ AliasOf(request.sourceFiles[j].path) = request.sourceFiles[k].path

Covered(k) ==
  LET f == request.sourceFiles[k]
      key == IF HasAlias(f.path) THEN AliasOf(f.path) ELSE f.path
  IN  has(necessaryFiles, key) /\ get(necessaryFiles, key) = f.content

\* as stated: the only exception is an alias overwritten by a later alias
C28_CoverageOfInput ==
  ClosureDone =>
    /\ \A k \in 1..Len(request.sourceFiles) :
         \/ Covered(k)
         \/ HasAlias(request.sourceFiles[k].path) /\ OverwrittenLater(k)
    /\ remappings = <<>> => ResultPaths = SourcePaths

\* amended: a file is also left out when an alias of a supplied file carries
\* its key (its own original path, or its alias path again)
C28_CoverageUnlessShadowed ==
  ClosureDone =>
    /\ \A k \in 1..Len(request.sourceFiles) :
         \/ Covered(k)
         \/ HasAlias(request.sourceFiles[k].path) /\ OverwrittenLater(k)
         \/ ~HasAlias(request.sourceFiles[k].path) /\ ShadowedByAlias(k)
    /\ \A k \in 1..Len(request.sourceFiles) :
         LET f == request.sourceFiles[k]
         IN  has(necessaryFiles, IF HasAlias(f.path) THEN AliasOf(f.path) ELSE f.path)
    /\ remappings = <<>> => ResultPaths = SourcePaths

\* a file nothing imports is in the closure under its original path, another
\* one under its alias, with the contents supplied
C28_Witness ==
  /\ ClosureDone
  /\ remappings # <<>>
  /\ \A k \in 1..Len(request.sourceFiles) : Covered(k)
  /\ \E k \in 1..Len(request.sourceFiles) : HasAlias(request.sourceFiles[k].path)
  /\ \E k \in 1..Len(request.sourceFiles) :
       /\ ~HasAlias(request.sourceFiles[k].path)
       /\ \A j \in 1..Len(request.sourceFiles) :
            request.sourceFiles[k].path \notin ResolvedImports(request.sourceFiles[j].path)

(***************************************************************************)
(* C29  In every state of the traversal the result map is a sub-map of the  *)
(* combined available set and of the processed set: each key of             *)
(* necessaryFiles is a key of allAvailableFiles with the identical content  *)
(* and is in processed; each path is expanded (added to the result and      *)
(* scanned for imports) at most once, however often it was enqueued.        *)
(***************************************************************************)
ResultIsSubMap ==
  /\ \A k \in 1..Len(necessaryFiles) :
       /\ has(allAvailableFiles, necessaryFiles[k].path)
       /\ get(allAvailableFiles, necessaryFiles[k].path) = necessaryFiles[k].content
       /\ necessaryFiles[k].path \in processed
  /\ \A j, k \in 1..Len(necessaryFiles) :
       necessaryFiles[j].path = necessaryFiles[k].path => j = k

\* an iteration of the loop either skips a processed path, leaving everything
\* but the queue alone, or marks a new path and adds at most that one entry
ExpandedOnce ==
  (pc = "loop" /\ queue # <<>> /\ pc' = "loop") =>
    LET currentFile == Head(queue) IN
    IF currentFile \in processed
    THEN /\ queue' = Tail(queue)
         /\ processed' = processed
         /\ necessaryFiles' = necessaryFiles
         /\ warnings' = warnings
    ELSE /\ processed' = processed \cup {currentFile}
         /\ IF has(allAvailableFiles, currentFile)
            THEN necessaryFiles' =
                   Append(necessaryFiles, [path |-> currentFile,
                                           content |-> get(allAvailableFiles, currentFile)])
            ELSE necessaryFiles' = necessaryFiles /\ queue' = Tail(queue)

C29_TraversalInvariants ==
  /\ [](pc \notin {"unit", "pair"} => ResultIsSubMap)
  /\ [][ExpandedOnce]_vars

\* a path that is in the result already stands in the queue once more, with
\* an import it would report again
C29_Witness ==
  /\ pc = "loop"
  /\ queue # <<>>
  /\ Head(queue) \in processed
  /\ Head(queue) \in ResultPaths
  /\ extractImports(get(allAvailableFiles, Head(queue))) # <<>>
  /\ Len(necessaryFiles) >= 2

====
